---- MODULE Spec2Model ----
(***************************************************************************)
(* Verification model of the instructional Solidity contracts of the       *)
(* repository: SecurityPitfalls, Coin, SimpleCoin, ConstructorAndFallback  *)
(* and the TokenBase / TokenPool / AdminExtension hierarchy.               *)
(*                                                                         *)
(* Each contract is a self-contained deployment.  Init deploys exactly one *)
(* of them (variable `contract`) and only that contract's functions are    *)
(* callable afterwards; the storage of the others stays at its default.    *)
(* The programs of the second part (SimpleStorage, the JavaScript demo of  *)
(* Lecture 7, the two OpenZeppelin tokens and a call of integerToString)   *)
(* are selected the same way, under a specification of their own           *)
(* (SpecPrograms); SpecQueries is SecurityPitfalls with its balance getter.*)
(*                                                                         *)
(* EVM semantics that the sources rely on and that the model keeps:        *)
(*  - uint arithmetic of Solidity >= 0.8 is checked: an overflowing `+`    *)
(*    or an underflowing `-` raises Panic(0x11);                           *)
(*  - a failing require / revert / Panic undoes every storage write and    *)
(*    every Ether movement made since the call was entered, including      *)
(*    those of calls nested in it;                                         *)
(*  - `addr.call{value: v}("")` hands control to the recipient, which may  *)
(*    call back into the contract before it returns success or failure.    *)
(***************************************************************************)
EXTENDS Integers, Sequences, FiniteSets, TLC

VARIABLES
    contract,       \* which contract this deployment is
    ret,            \* outcome of the most recent call (or call step)
    wallet,         \* Ether held by each external account
    \* ---- SecurityPitfalls (src/unnamed/part_001)
    sp_owner,       \* address public owner
    sp_balances,    \* mapping(address => uint256) public balances
    sp_locked,      \* bool private locked
    sp_eth,         \* address(this).balance
    sp_stack,       \* call frames of withdrawals whose external call is in flight
    sp_seenReentry, \* history: a nested safeWithdraw has been rejected by the lock
    \* ---- Coin (src/SolidityIntro/CoreContracts/Simple_Coin.sol)
    coin_minter,    \* address public minter
    coin_balances,  \* mapping(address => uint) public balances
    \* ---- SimpleCoin (src/SolidityIntro/ConstructorAndFallback.sol)
    sc_owner,       \* address public owner
    sc_balanceOf,   \* mapping(address => uint256) public balanceOf
    \* ---- TokenBase / TokenPool / AdminExtension
    pool,           \* the storage and Ether of the AdminExtension deployment
    \* ---- ConstructorAndFallback (src/SolidityIntro/ConstructorAndFallback.sol)
    cf,             \* the storage and Ether of the ConstructorAndFallback deployment
    \* ---- SimpleStorage (Simple_Storage.sol and ConstructorAndFallback.sol 839-879)
    ss,             \* the storage of the SimpleStorage deployment, with its history
    \* ---- the asynchronous demo script (src/Lecture7-Demo/index.js)
    js,             \* the run of the script: position, console, clock, timers, jobs
    \* ---- MyToken, the ERC20 token (src/unnamed/part_003)
    token,          \* the storage of the MyToken deployment, with its history
    \* ---- MyToken, the ERC721 collection (src/unnamed/part_004)
    nft,            \* the storage of the collection, with the list of the mints
    its             \* a call of integerToString: its position and local variables

spVars == <<sp_owner, sp_balances, sp_locked, sp_eth, sp_stack, sp_seenReentry>>
coinVars == <<coin_minter, coin_balances>>
scVars == <<sc_owner, sc_balanceOf>>
vars == <<contract, ret, wallet, spVars, coinVars, scVars, pool, cf, ss, js, token, nft, its>>

----------------------------------------------------------------------------
(* Bounds of the model *)

\* largest value of the unsigned integer type (stands for 2^256 - 1)
MaxUint == 3
\* Ether each external account owns at deployment
InitFunds == 1
\* deepest nesting of calls whose external call is in flight
MaxDepth == 2
\* fallback calls made to one ConstructorAndFallback deployment
MaxFallbacks == 2
\* largest argument given to integerToString
MaxValue == 120

----------------------------------------------------------------------------
(* Accounts and unsigned arithmetic *)

\* externally owned accounts / calling contracts; "O" deploys
Addr == {"O", "A", "B"}
Deployer == "O"
\* address(0)
ZeroAddr == "0x0"
Uint == 0..MaxUint
\* amounts a caller of SecurityPitfalls passes: up to one more than it can own
SP_Amount == 1..(InitFunds + 1)
\* the accounts that use the SecurityPitfalls deployment
SP_Addr == {"O", "A"}

RECURSIVE SumOver(_, _)
SumOver(f, S) ==
    IF S = {} THEN 0
    ELSE LET x == CHOOSE y \in S : TRUE IN f[x] + SumOver(f, S \ {x})

Sum(f) == SumOver(f, DOMAIN f)

\* mutant: addition compiled without the overflow check
AddFits_unchecked(a, b) == TRUE

\* a + b of Solidity >= 0.8: defined when it fits the type, else Panic(0x11)
AddFits(a, b) == a + b <= MaxUint
\* the bits an addition leaves in a uint: the sum modulo 2^w
uint_add(a, b) == (a + b) % (MaxUint + 1)
\* mutant: subtraction compiled without the underflow check
SubFits_unchecked(a, b) == TRUE

\* a - b of Solidity >= 0.8: defined when b <= a, else Panic(0x11)
SubFits(a, b) == b <= a

Ok == <<>>
Error(msg) == <<"Error", msg>>
Panic == <<"Panic", "0x11">>

\* the outcome record of a call
\*   phase: "interaction" while the call's external call is in flight, else "returned"
\*   sent:  what the call's external value transfer reported: "none" when it
\*          made none, "ok" or "failed"
\*   err:   Ok, or the error the call reverted with
Ret(c, fn, sender, to, amount, depth, phase, sent, err, emitted) ==
    [contract |-> c, fn |-> fn, sender |-> sender, to |-> to, amount |-> amount,
     depth |-> depth, phase |-> phase, sent |-> sent, err |-> err,
     emitted |-> emitted]

NoRet == Ret("", "constructor", Deployer, Deployer, 0, 0, "returned", "none", Ok, <<>>)

----------------------------------------------------------------------------
(* SecurityPitfalls                                      src/unnamed/part_001 *)

Withdrawal(user, amount) == [kind |-> "Withdrawal", user |-> user, amount |-> amount]
DepositEvent(user, amount) == [kind |-> "Deposit", user |-> user, amount |-> amount]

\* everything a revert of a SecurityPitfalls call frame restores
SP_snapshot ==
    [owner |-> sp_owner, balances |-> sp_balances, locked |-> sp_locked,
     eth |-> sp_eth, wallet |-> wallet]

\* depth at which a call made now executes (1 = a transaction of its own)
SP_depth == Len(sp_stack) + 1

\* who can call now: anyone between transactions; while an external call is in
\* flight, control is with its recipient, so the recipient is the caller
SP_caller(s) == IF sp_stack = <<>> THEN TRUE ELSE s = sp_stack[Len(sp_stack)].sender

SP_ret(fn, sender, amount, phase, sent, err, emitted) ==
    Ret("SP", fn, sender, sender, amount, SP_depth, phase, sent, err, emitted)

\* a call that reverts before its external call: no storage or Ether change
SP_reject(fn, sender, amount, sent, err) ==
    /\ ret' = SP_ret(fn, sender, amount, "returned", sent, err, <<>>)
    /\ UNCHANGED <<sp_owner, sp_balances, sp_locked, sp_eth, sp_stack, wallet>>

\* mutant: the guard does not look at the lock
noReentrancy_require_off(locked) == TRUE

\* modifier noReentrancy, line 23: require(!locked, ...)
noReentrancy_require(locked) == ~locked

\* modifier noReentrancy, line 24: the lock value while the body runs
noReentrancy_acquired == TRUE

\* mutant: the modifier does not release the lock
noReentrancy_neverReleased == TRUE

\* modifier noReentrancy, line 26: the lock value after the body (`_`) completed
noReentrancy_released == FALSE

\* mutant: the modifier lets every caller pass
onlyOwner_require_any(sender, owner) == TRUE

\* modifier onlyOwner, line 31: require(msg.sender == owner, ...)
onlyOwner_require(sender, owner) == sender = owner

\* mutant: a failing call keeps the balances it has written
SP_revert_keepBalances(f) ==
    /\ sp_owner' = f.snap.owner
    /\ sp_locked' = f.snap.locked
    /\ sp_eth' = f.snap.eth
    /\ wallet' = f.snap.wallet
    /\ UNCHANGED sp_balances

\* the state a reverting frame leaves: the snapshot taken when it was entered
SP_revert(f) ==
    /\ sp_owner' = f.snap.owner
    /\ sp_balances' = f.snap.balances
    /\ sp_locked' = f.snap.locked
    /\ sp_eth' = f.snap.eth
    /\ wallet' = f.snap.wallet

\* mutant: the credit is behind the owner check
SP_credit_ownerOnly(fn, s, v) ==
    /\ contract = "SP"
    /\ SP_caller(s)
    /\ wallet[s] >= v
    /\ IF s # sp_owner
       THEN SP_reject(fn, s, v, "none", Error("Not the owner"))
       ELSE IF AddFits(sp_balances[s], v)
       THEN /\ sp_balances' = [sp_balances EXCEPT ![s] = @ + v]
            /\ sp_eth' = sp_eth + v
            /\ wallet' = [wallet EXCEPT ![s] = @ - v]
            /\ ret' = SP_ret(fn, s, v, "returned", "none", Ok, <<DepositEvent(s, v)>>)
            /\ UNCHANGED <<sp_owner, sp_locked, sp_stack>>
       ELSE SP_reject(fn, s, v, "none", Panic)
    /\ UNCHANGED sp_seenReentry

\* mutant: the credit is behind the lock
SP_credit_noReentrancy(fn, s, v) ==
    /\ contract = "SP"
    /\ SP_caller(s)
    /\ wallet[s] >= v
    /\ IF ~noReentrancy_require(sp_locked)
       THEN SP_reject(fn, s, v, "none", Error("Reentrant call detected"))
       ELSE IF AddFits(sp_balances[s], v)
       THEN /\ sp_balances' = [sp_balances EXCEPT ![s] = @ + v]
            /\ sp_eth' = sp_eth + v
            /\ wallet' = [wallet EXCEPT ![s] = @ - v]
            /\ ret' = SP_ret(fn, s, v, "returned", "none", Ok, <<DepositEvent(s, v)>>)
            /\ UNCHANGED <<sp_owner, sp_locked, sp_stack>>
       ELSE SP_reject(fn, s, v, "none", Panic)
    /\ UNCHANGED sp_seenReentry

\* deposit(), and receive() which calls it: msg.value moves to the contract
\* and is credited to msg.sender
SP_credit(fn, s, v) ==
    /\ contract = "SP"
    /\ SP_caller(s)
    /\ wallet[s] >= v
    /\ IF AddFits(sp_balances[s], v)
       THEN /\ sp_balances' = [sp_balances EXCEPT ![s] = @ + v]
            /\ sp_eth' = sp_eth + v
            /\ wallet' = [wallet EXCEPT ![s] = @ - v]
            /\ ret' = SP_ret(fn, s, v, "returned", "none", Ok, <<DepositEvent(s, v)>>)
            /\ UNCHANGED <<sp_owner, sp_locked, sp_stack>>
       ELSE SP_reject(fn, s, v, "none", Panic)
    /\ UNCHANGED sp_seenReentry

SP_deposit(s, v) == SP_credit("deposit", s, v)

SP_receive(s, v) == SP_credit("receive", s, v)

\* mutant: the balance is not written before the external call
safeWithdraw_effects_late(balances, s, a) == balances

\* safeWithdraw, line 64: the balances mapping when the external call starts
safeWithdraw_effects(balances, s, a) == [balances EXCEPT ![s] = @ - a]

\* unsafeWithdraw, line 48: the balances mapping when the external call starts
unsafeWithdraw_effects(balances, s, a) == balances

\* msg.sender.call{value: a}(""): Ether leaves the contract, the recipient runs
SP_startCall(fn, s, a, balances, locked) ==
    /\ SP_depth <= MaxDepth
    /\ sp_stack' = Append(sp_stack,
          [fn |-> fn, sender |-> s, amount |-> a, snap |-> SP_snapshot,
           balAtCall |-> balances[s]])
    /\ sp_balances' = balances
    /\ sp_locked' = locked
    /\ sp_eth' = sp_eth - a
    /\ wallet' = [wallet EXCEPT ![s] = @ + a]
    /\ ret' = SP_ret(fn, s, a, "interaction", "none", Ok, <<>>)
    /\ UNCHANGED sp_owner

\* safeWithdraw up to its external call (lines 59-67)
SP_safeWithdraw(s, a) ==
    /\ contract = "SP"
    /\ SP_caller(s)
    /\ IF ~noReentrancy_require(sp_locked)
       THEN /\ SP_reject("safeWithdraw", s, a, "none", Error("Reentrant call detected"))
            /\ sp_seenReentry' = TRUE
       ELSE /\ UNCHANGED sp_seenReentry
            /\ IF ~(sp_balances[s] >= a)
               THEN SP_reject("safeWithdraw", s, a, "none", Error("Insufficient balance"))
               ELSE IF sp_eth < a
               THEN SP_reject("safeWithdraw", s, a, "failed", Error("Transfer failed"))
               ELSE SP_startCall("safeWithdraw", s, a,
                                 safeWithdraw_effects(sp_balances, s, a),
                                 noReentrancy_acquired)

\* unsafeWithdraw up to its external call (lines 43-48)
SP_unsafeWithdraw(s, a) ==
    /\ contract = "SP"
    /\ SP_caller(s)
    /\ UNCHANGED sp_seenReentry
    /\ IF ~(sp_balances[s] >= a)
       THEN SP_reject("unsafeWithdraw", s, a, "none", Error("Insufficient balance"))
       ELSE IF sp_eth < a
       THEN SP_reject("unsafeWithdraw", s, a, "failed", Error("Transfer failed"))
       ELSE SP_startCall("unsafeWithdraw", s, a,
                         unsafeWithdraw_effects(sp_balances, s, a), sp_locked)

\* the recipient of the innermost external call returns; the withdrawal that
\* made the call runs to its end (lines 68-71 and 26, or lines 49-55)
SP_externalReturn(success) ==
    /\ contract = "SP"
    /\ sp_stack # <<>>
    /\ LET d == Len(sp_stack)
           f == sp_stack[d]
           done(err, emitted) ==
               Ret("SP", f.fn, f.sender, f.sender, f.amount, d, "returned",
                   IF success THEN "ok" ELSE "failed", err, emitted)
       IN  /\ sp_stack' = SubSeq(sp_stack, 1, d - 1)
           /\ IF ~success
              THEN /\ SP_revert(f)
                   /\ ret' = done(Error("Transfer failed"), <<>>)
              ELSE IF f.fn = "safeWithdraw"
              THEN /\ sp_locked' = noReentrancy_released
                   /\ ret' = done(Ok, <<Withdrawal(f.sender, f.amount)>>)
                   /\ UNCHANGED <<sp_owner, sp_balances, sp_eth, wallet>>
              ELSE IF SubFits(sp_balances[f.sender], f.amount)
              THEN /\ sp_balances' = [sp_balances EXCEPT ![f.sender] = @ - f.amount]
                   /\ ret' = done(Ok, <<Withdrawal(f.sender, f.amount)>>)
                   /\ UNCHANGED <<sp_owner, sp_locked, sp_eth, wallet>>
              ELSE /\ SP_revert(f)
                   /\ ret' = done(Panic, <<>>)
    /\ UNCHANGED sp_seenReentry

\* The ownership calls are modelled as transactions of their own: the callbacks
\* of the model re-enter the value-bearing functions only.

\* unsafeChangeOwner, lines 118-121: no access control
SP_unsafeChangeOwner(s, newOwner) ==
    /\ contract = "SP"
    /\ sp_stack = <<>>
    /\ sp_owner' = newOwner
    /\ ret' = Ret("SP", "unsafeChangeOwner", s, newOwner, 0, SP_depth, "returned", "none", Ok, <<>>)
    /\ UNCHANGED <<sp_balances, sp_locked, sp_eth, sp_stack, sp_seenReentry, wallet>>

\* safeChangeOwner, lines 124-127
SP_safeChangeOwner(s, newOwner) ==
    /\ contract = "SP"
    /\ sp_stack = <<>>
    /\ ret' = Ret("SP", "safeChangeOwner", s, newOwner, 0, SP_depth, "returned", "none",
                  IF onlyOwner_require(s, sp_owner) THEN Ok ELSE Error("Not the owner"), <<>>)
    /\ sp_owner' = IF onlyOwner_require(s, sp_owner) THEN newOwner ELSE sp_owner
    /\ UNCHANGED <<sp_balances, sp_locked, sp_eth, sp_stack, sp_seenReentry, wallet>>

\* unsafeAdd, lines 75-80: the sum is checked arithmetic
unsafeAdd(a, b) ==
    IF ~AddFits(a, b) THEN [err |-> Panic, value |-> 0]
    ELSE [err |-> Ok, value |-> uint_add(a, b)]

\* safeAdd, lines 83-88: the same sum, then require(c >= a, ...)
safeAdd(a, b) ==
    IF ~AddFits(a, b) THEN [err |-> Panic, value |-> 0]
    ELSE LET c == uint_add(a, b) IN
         IF ~(c >= a) THEN [err |-> Error("Addition overflow"), value |-> 0]
         ELSE [err |-> Ok, value |-> c]

\* a call of one of the two pure functions; the record keeps the value returned
SP_pure(fn, r) ==
    /\ contract = "SP"
    /\ sp_stack = <<>>
    /\ ret' = Ret("SP", fn, ZeroAddr, ZeroAddr, r.value, SP_depth, "returned", "none",
                  r.err, <<>>)
    /\ UNCHANGED <<sp_owner, sp_balances, sp_locked, sp_eth, sp_stack, sp_seenReentry, wallet>>

SP_unsafeAdd(a, b) == SP_pure("unsafeAdd", unsafeAdd(a, b))

SP_safeAdd(a, b) == SP_pure("safeAdd", safeAdd(a, b))

\* getContractBalance(), lines 130-132
SP_getContractBalance == sp_eth

\* a balance query, made between transactions or by the recipient of a
\* withdrawal in flight: the getter of the public mapping balances (line 9),
\* asked for the caller's balance, or getContractBalance (lines 130-132); the
\* record keeps the value returned
SP_view(fn, s) ==
    /\ contract = "SP"
    /\ SP_caller(s)
    /\ ret' = SP_ret(fn, s, IF fn = "balances" THEN sp_balances[s] ELSE SP_getContractBalance,
                     "returned", "none", Ok, <<>>)
    /\ UNCHANGED <<sp_owner, sp_balances, sp_locked, sp_eth, sp_stack, sp_seenReentry, wallet>>

SP_Init ==
    /\ sp_owner = Deployer
    /\ sp_balances = [a \in Addr |-> 0]
    /\ sp_locked = FALSE
    /\ sp_eth = 0
    /\ sp_stack = <<>>
    /\ sp_seenReentry = FALSE

SP_Next ==
    \/ \E s \in SP_Addr, v \in SP_Amount : SP_deposit(s, v)
    \/ \E s \in SP_Addr, v \in SP_Amount : SP_receive(s, v)
    \/ \E s \in SP_Addr, a \in SP_Amount : SP_safeWithdraw(s, a)
    \/ \E s \in SP_Addr, a \in SP_Amount : SP_unsafeWithdraw(s, a)
    \/ \E success \in BOOLEAN : SP_externalReturn(success)
    \/ \E s \in SP_Addr, n \in SP_Addr : SP_unsafeChangeOwner(s, n)
    \/ \E s \in SP_Addr, n \in SP_Addr : SP_safeChangeOwner(s, n)
    \/ \E a \in Uint, b \in Uint : SP_unsafeAdd(a, b)
    \/ \E a \in Uint, b \in Uint : SP_safeAdd(a, b)

----------------------------------------------------------------------------
(* Coin                         src/SolidityIntro/CoreContracts/Simple_Coin.sol *)

Sent(from, to, amount) == [kind |-> "Sent", from |-> from, to |-> to, amount |-> amount]

\* error InsufficientBalance(uint requested, uint available), line 62
InsufficientBalance(requested, available) ==
    <<"InsufficientBalance", requested, available>>

\* mutant: mint does not check its caller
Coin_mint_require_any(sender, minter) == TRUE

\* mint, line 53: require(msg.sender == minter, ...)
Coin_mint_require(sender, minter) == sender = minter

\* mutant: the coins are credited to the caller instead of the receiver
Coin_mint_result_toCaller(minter, balances, s, receiver, amount) ==
    IF ~(s = minter)
    THEN [err |-> Error("Only the minter can create new coins"),
          balances |-> balances, emitted |-> <<>>]
    ELSE IF ~AddFits(balances[s], amount)
    THEN [err |-> Panic, balances |-> balances, emitted |-> <<>>]
    ELSE [err |-> Ok,
          balances |-> [balances EXCEPT ![s] = @ + amount],
          emitted |-> <<>>]

\* mint (lines 50-58) as a function of the storage it reads
Coin_mint_result(minter, balances, s, receiver, amount) ==
    IF ~Coin_mint_require(s, minter)
    THEN [err |-> Error("Only the minter can create new coins"),
          balances |-> balances, emitted |-> <<>>]
    ELSE IF ~AddFits(balances[receiver], amount)
    THEN [err |-> Panic, balances |-> balances, emitted |-> <<>>]
    ELSE [err |-> Ok,
          balances |-> [balances EXCEPT ![receiver] = @ + amount],
          emitted |-> <<>>]

\* mutant: the two fields of the error are filled the other way round
Coin_send_error_swapped(balances, s, amount) == InsufficientBalance(balances[s], amount)

\* send, lines 77-81: the error a send that asks for too much reverts with
Coin_send_error(balances, s, amount) == InsufficientBalance(amount, balances[s])

\* mutant: send does not emit Sent
Coin_send_result_silent(balances, s, receiver, amount) ==
    IF amount > balances[s]
    THEN [err |-> InsufficientBalance(amount, balances[s]),
          balances |-> balances, emitted |-> <<>>]
    ELSE LET debited == [balances EXCEPT ![s] = @ - amount] IN
         IF ~AddFits(debited[receiver], amount)
         THEN [err |-> Panic, balances |-> balances, emitted |-> <<>>]
         ELSE [err |-> Ok,
               balances |-> [debited EXCEPT ![receiver] = @ + amount],
               emitted |-> <<>>]

\* send (lines 74-91) as a function of the storage it reads
Coin_send_result(balances, s, receiver, amount) ==
    IF amount > balances[s]
    THEN [err |-> Coin_send_error(balances, s, amount),
          balances |-> balances, emitted |-> <<>>]
    ELSE LET debited == [balances EXCEPT ![s] = @ - amount] IN
         IF ~AddFits(debited[receiver], amount)
         THEN [err |-> Panic, balances |-> balances, emitted |-> <<>>]
         ELSE [err |-> Ok,
               balances |-> [debited EXCEPT ![receiver] = @ + amount],
               emitted |-> <<Sent(s, receiver, amount)>>]

Coin_mint(s, receiver, amount) ==
    /\ contract = "Coin"
    /\ LET r == Coin_mint_result(coin_minter, coin_balances, s, receiver, amount) IN
       /\ coin_balances' = r.balances
       /\ ret' = Ret("Coin", "mint", s, receiver, amount, 1, "returned", "none",
                     r.err, r.emitted)
    /\ UNCHANGED coin_minter

Coin_send(s, receiver, amount) ==
    /\ contract = "Coin"
    /\ LET r == Coin_send_result(coin_balances, s, receiver, amount) IN
       /\ coin_balances' = r.balances
       /\ ret' = Ret("Coin", "send", s, receiver, amount, 1, "returned", "none",
                     r.err, r.emitted)
    /\ UNCHANGED coin_minter

\* constructor, lines 33-37
Coin_Init ==
    /\ coin_minter = Deployer
    /\ coin_balances = [a \in Addr |-> 0]

Coin_Next ==
    \/ \E s \in Addr, r \in Addr, a \in Uint : Coin_mint(s, r, a)
    \/ \E s \in Addr, r \in Addr, a \in Uint : Coin_send(s, r, a)

----------------------------------------------------------------------------
(* SimpleCoin              src/SolidityIntro/ConstructorAndFallback.sol 121-205 *)

TransferEvent(from, to, value) ==
    [kind |-> "Transfer", from |-> from, to |-> to, amount |-> value]
MintEvent(to, value) == [kind |-> "Mint", to |-> to, amount |-> value]

\* mint, line 183: require(msg.sender == owner, ...)
SimpleCoin_mint_require(sender, owner) == sender = owner

\* transfer (lines 158-175).  The sum of the overflow check of line 163 is
\* itself checked arithmetic: when it does not fit, it raises Panic before the
\* comparison is made.
SimpleCoin_transfer_result(balanceOf, s, to, value) ==
    IF ~(balanceOf[s] >= value)
    THEN [err |-> Error("Insufficient balance"), balanceOf |-> balanceOf, emitted |-> <<>>]
    ELSE IF ~AddFits(balanceOf[to], value)
    THEN [err |-> Panic, balanceOf |-> balanceOf, emitted |-> <<>>]
    ELSE IF ~(uint_add(balanceOf[to], value) >= balanceOf[to])
    THEN [err |-> Error("Overflow detected"), balanceOf |-> balanceOf, emitted |-> <<>>]
    ELSE LET debited == [balanceOf EXCEPT ![s] = @ - value] IN
         [err |-> Ok,
          balanceOf |-> [debited EXCEPT ![to] = @ + value],
          emitted |-> <<TransferEvent(s, to, value)>>]

\* mutant: the overflow check of line 186 asks for a strictly larger balance
SimpleCoin_mint_result_strict(owner, balanceOf, s, to, value) ==
    IF ~SimpleCoin_mint_require(s, owner)
    THEN [err |-> Error("Only owner can mint"), balanceOf |-> balanceOf, emitted |-> <<>>]
    ELSE IF ~AddFits(balanceOf[to], value)
    THEN [err |-> Panic, balanceOf |-> balanceOf, emitted |-> <<>>]
    ELSE IF ~(uint_add(balanceOf[to], value) > balanceOf[to])
    THEN [err |-> Error("Overflow detected"), balanceOf |-> balanceOf, emitted |-> <<>>]
    ELSE [err |-> Ok,
          balanceOf |-> [balanceOf EXCEPT ![to] = @ + value],
          emitted |-> <<MintEvent(to, value), TransferEvent(ZeroAddr, to, value)>>]

\* mint (lines 181-196)
SimpleCoin_mint_result(owner, balanceOf, s, to, value) ==
    IF ~SimpleCoin_mint_require(s, owner)
    THEN [err |-> Error("Only owner can mint"), balanceOf |-> balanceOf, emitted |-> <<>>]
    ELSE IF ~AddFits(balanceOf[to], value)
    THEN [err |-> Panic, balanceOf |-> balanceOf, emitted |-> <<>>]
    ELSE IF ~(uint_add(balanceOf[to], value) >= balanceOf[to])
    THEN [err |-> Error("Overflow detected"), balanceOf |-> balanceOf, emitted |-> <<>>]
    ELSE [err |-> Ok,
          balanceOf |-> [balanceOf EXCEPT ![to] = @ + value],
          emitted |-> <<MintEvent(to, value), TransferEvent(ZeroAddr, to, value)>>]

\* totalSupply(), lines 200-204
SimpleCoin_totalSupply == sc_balanceOf[sc_owner]

SimpleCoin_transfer(s, to, value) ==
    /\ contract = "SimpleCoin"
    /\ LET r == SimpleCoin_transfer_result(sc_balanceOf, s, to, value) IN
       /\ sc_balanceOf' = r.balanceOf
       /\ ret' = Ret("SimpleCoin", "transfer", s, to, value, 1, "returned", "none",
                     r.err, r.emitted)
    /\ UNCHANGED sc_owner

SimpleCoin_mint(s, to, value) ==
    /\ contract = "SimpleCoin"
    /\ LET r == SimpleCoin_mint_result(sc_owner, sc_balanceOf, s, to, value) IN
       /\ sc_balanceOf' = r.balanceOf
       /\ ret' = Ret("SimpleCoin", "mint", s, to, value, 1, "returned", "none",
                     r.err, r.emitted)
    /\ UNCHANGED sc_owner

\* constructor, lines 139-152: the deployer owns the contract and receives
\* _initialSupply * 10**decimals, any amount of the type that the deployer
\* picks through _initialSupply
SimpleCoin_Init ==
    /\ sc_owner = Deployer
    /\ \E initial \in Uint :
          sc_balanceOf = [a \in Addr |-> IF a = Deployer THEN initial ELSE 0]

SimpleCoin_Next ==
    \/ \E s \in Addr, to \in Addr, v \in Uint : SimpleCoin_transfer(s, to, v)
    \/ \E s \in Addr, to \in Addr, v \in Uint : SimpleCoin_mint(s, to, v)

----------------------------------------------------------------------------
(* TokenBase, TokenPool, AdminExtension                                     *)
(*                        src/SolidityIntro/ConstructorAndFallback.sol 227-499 *)
(* The deployment is an AdminExtension, which inherits the other two.  Its  *)
(* storage is handled as one record st:                                     *)
(*   balances, totalSupply       TokenBase._balances, _totalSupply          *)
(*   owner, buyRate, sellRate    TokenPool                                  *)
(*   admins                      AdminExtension.admins (the set mapped true)*)
(*   eth                         address(this).balance                      *)

\* the accounts that use the deployment, and the addresses they can name
Pool_Addr == {"O", "A"}
Pool_Target == Pool_Addr \cup {ZeroAddr}
\* the exchange rates the owner picks
Pool_Rate == {0, 2}

PanicDiv == <<"Panic", "0x12">>
\* a * b of Solidity >= 0.8: defined when it fits the type, else Panic(0x11)
MulFits(a, b) == a * b <= MaxUint

Pool_fail(st, err) == [err |-> err, st |-> st, emitted |-> <<>>]

\* TokenBase._transfer, lines 250-266
TokenBase_transfer(st, from, to, amount) ==
    IF ~(from # ZeroAddr) THEN Pool_fail(st, Error("Transfer from zero address"))
    ELSE IF ~(to # ZeroAddr) THEN Pool_fail(st, Error("Transfer to zero address"))
    ELSE IF ~(st.balances[from] >= amount) THEN Pool_fail(st, Error("Insufficient balance"))
    ELSE LET debited == [st.balances EXCEPT ![from] = @ - amount] IN
         IF ~AddFits(debited[to], amount) THEN Pool_fail(st, Panic)
         ELSE [err |-> Ok,
               st |-> [st EXCEPT !.balances = [debited EXCEPT ![to] = @ + amount]],
               emitted |-> <<TransferEvent(from, to, amount)>>]

\* mutant: minting does not count the new tokens in the total supply
TokenBase_mint_supply_unchanged(totalSupply, amount) == totalSupply

\* TokenBase._mint, line 276: the total supply after minting amount
TokenBase_mint_supply(totalSupply, amount) == totalSupply + amount

\* TokenBase._mint, lines 273-280
TokenBase_mint(st, account, amount) ==
    IF ~(account # ZeroAddr) THEN Pool_fail(st, Error("Mint to zero address"))
    ELSE IF ~AddFits(st.totalSupply, amount) THEN Pool_fail(st, Panic)
    ELSE IF ~AddFits(st.balances[account], amount) THEN Pool_fail(st, Panic)
    ELSE [err |-> Ok,
          st |-> [st EXCEPT !.totalSupply = TokenBase_mint_supply(@, amount),
                            !.balances[account] = @ + amount],
          emitted |-> <<TransferEvent(ZeroAddr, account, amount)>>]

\* TokenBase._burn, line 289: require(_balances[account] >= amount, ...)
TokenBase_burn_require(balance, amount) == balance >= amount

\* TokenBase._burn, lines 287-295
TokenBase_burn(st, account, amount) ==
    IF ~(account # ZeroAddr) THEN Pool_fail(st, Error("Burn from zero address"))
    ELSE IF ~TokenBase_burn_require(st.balances[account], amount)
    THEN Pool_fail(st, Error("Burn amount exceeds balance"))
    ELSE IF ~SubFits(st.balances[account], amount) THEN Pool_fail(st, Panic)
    ELSE IF ~SubFits(st.totalSupply, amount) THEN Pool_fail(st, Panic)
    ELSE [err |-> Ok,
          st |-> [st EXCEPT !.balances[account] = @ - amount,
                            !.totalSupply = @ - amount],
          emitted |-> <<TransferEvent(account, ZeroAddr, amount)>>]

\* mutant: every amount is valid
TokenBase_isValidAmount_any(value) == TRUE

\* TokenBase._isValidAmount, lines 303-305
TokenBase_isValidAmount(value) == value > 0

\* mutant: the tokens are taken from the account named, not from the caller
TokenPool_transfer_fromNamed(st, s, to, amount) == TokenBase_transfer(st, to, s, amount)

\* TokenPool.transfer, lines 372-375
TokenPool_transfer(st, s, to, amount) == TokenBase_transfer(st, s, to, amount)

\* TokenPool.buyTokens, lines 381-392: msg.value is with the contract while
\* the body runs and returns to the sender when the body reverts
TokenPool_buyTokens(st, s, value) ==
    LET paid == [st EXCEPT !.eth = @ + value] IN
    IF ~(value > 0) THEN Pool_fail(st, Error("Must send ETH to buy tokens"))
    ELSE IF ~MulFits(value, st.buyRate) THEN Pool_fail(st, Panic)
    ELSE LET tokenAmount == value * st.buyRate IN
         IF ~TokenBase_isValidAmount(tokenAmount) THEN Pool_fail(st, Error("Invalid amount"))
         ELSE LET r == TokenBase_mint(paid, s, tokenAmount) IN
              IF r.err = Ok THEN r ELSE Pool_fail(st, r.err)

\* TokenPool.sellTokens, lines 398-412; success is what the seller's account
\* answers to the Ether it is sent.  All storage writes precede the call and a
\* failure of the call reverts the whole sale, so what the seller does during
\* the call is the same as what it does in transactions after the sale.
TokenPool_sellTokens(st, s, tokenAmount, success) ==
    IF ~TokenBase_isValidAmount(tokenAmount)
    THEN Pool_fail(st, Error("Amount must be greater than 0"))
    ELSE IF ~(st.balances[s] >= tokenAmount) THEN Pool_fail(st, Error("Insufficient balance"))
    ELSE IF st.sellRate = 0 THEN Pool_fail(st, PanicDiv)
    ELSE LET ethAmount == tokenAmount \div st.sellRate IN
         IF ~(st.eth >= ethAmount) THEN Pool_fail(st, Error("Insufficient liquidity"))
         ELSE LET r == TokenBase_burn(st, s, tokenAmount) IN
              IF r.err # Ok THEN Pool_fail(st, r.err)
              ELSE IF ~success THEN Pool_fail(st, Error("ETH transfer failed"))
              ELSE [r EXCEPT !.st.eth = @ - ethAmount]

\* TokenPool.updateRates, lines 419-423
TokenPool_updateRates(st, s, newBuyRate, newSellRate) ==
    IF ~(s = st.owner) THEN Pool_fail(st, Error("Only owner can update rates"))
    ELSE [err |-> Ok,
          st |-> [st EXCEPT !.buyRate = newBuyRate, !.sellRate = newSellRate],
          emitted |-> <<>>]

\* TokenPool.receive, line 428
TokenPool_receive(st, s, value) ==
    [err |-> Ok, st |-> [st EXCEPT !.eth = @ + value], emitted |-> <<>>]

\* mutant: the modifier lets every caller pass
onlyAdmin_require_any(admins, s) == TRUE

\* modifier onlyAdmin, line 458: require(admins[msg.sender], ...)
onlyAdmin_require(admins, s) == s \in admins

\* mutant: addAdmin without the onlyAdmin modifier
AdminExtension_addAdmin_unguarded(st, s, newAdmin) ==
    [err |-> Ok, st |-> [st EXCEPT !.admins = @ \cup {newAdmin}], emitted |-> <<>>]

\* AdminExtension.addAdmin, lines 466-468
AdminExtension_addAdmin(st, s, newAdmin) ==
    IF ~onlyAdmin_require(st.admins, s) THEN Pool_fail(st, Error("Admin access required"))
    ELSE [err |-> Ok, st |-> [st EXCEPT !.admins = @ \cup {newAdmin}], emitted |-> <<>>]

\* AdminExtension.adminMint, lines 475-478
AdminExtension_adminMint(st, s, to, amount) ==
    IF ~onlyAdmin_require(st.admins, s) THEN Pool_fail(st, Error("Admin access required"))
    ELSE TokenBase_mint(st, to, amount)

\* AdminExtension.adminBurn, lines 485-488
AdminExtension_adminBurn(st, s, from, amount) ==
    IF ~onlyAdmin_require(st.admins, s) THEN Pool_fail(st, Error("Admin access required"))
    ELSE TokenBase_burn(st, from, amount)

\* AdminExtension.emergencyWithdraw, lines 494-498
AdminExtension_emergencyWithdraw(st, s, amount, success) ==
    IF ~onlyAdmin_require(st.admins, s) THEN Pool_fail(st, Error("Admin access required"))
    ELSE IF ~(amount <= st.eth) THEN Pool_fail(st, Error("Insufficient contract balance"))
    ELSE IF ~success THEN Pool_fail(st, Error("ETH transfer failed"))
    ELSE [err |-> Ok, st |-> [st EXCEPT !.eth = @ - amount], emitted |-> <<>>]

\* TokenPool.balanceOf, lines 354-356, and totalSupply, lines 362-364
TokenPool_balanceOf(account) == pool.balances[account]
TokenPool_totalSupply == pool.totalSupply

\* one external call of the deployment: r is the function's result.  Of a call
\* of this deployment the record keeps the function, the caller and the outcome.
Pool_call(fn, s, to, amount, sent, r) ==
    /\ contract = "Pool"
    /\ pool' = r.st
    /\ ret' = Ret("Pool", fn, s, ZeroAddr, 0, 1, "returned", sent, r.err, <<>>)

\* Ether that a call brings must fit the contract's balance
Pool_payable(value) == pool.eth + value <= MaxUint

Pool_sent(success) == IF success THEN "ok" ELSE "failed"

Pool_transfer(s, to, amount) ==
    Pool_call("transfer", s, to, amount, "none", TokenPool_transfer(pool, s, to, amount))

Pool_buyTokens(s, value) ==
    /\ Pool_payable(value)
    /\ Pool_call("buyTokens", s, s, value, "none", TokenPool_buyTokens(pool, s, value))

Pool_sellTokens(s, tokenAmount, success) ==
    LET r == TokenPool_sellTokens(pool, s, tokenAmount, success) IN
    Pool_call("sellTokens", s, s, tokenAmount,
              IF r.err \in {Ok, Error("ETH transfer failed")} THEN Pool_sent(success)
              ELSE "none", r)

Pool_updateRates(s, newBuyRate, newSellRate) ==
    Pool_call("updateRates", s, s, 0, "none",
              TokenPool_updateRates(pool, s, newBuyRate, newSellRate))

Pool_receive(s, value) ==
    /\ Pool_payable(value)
    /\ Pool_call("receive", s, s, value, "none", TokenPool_receive(pool, s, value))

Pool_addAdmin(s, newAdmin) ==
    Pool_call("addAdmin", s, newAdmin, 0, "none", AdminExtension_addAdmin(pool, s, newAdmin))

Pool_adminMint(s, to, amount) ==
    Pool_call("adminMint", s, to, amount, "none",
              AdminExtension_adminMint(pool, s, to, amount))

Pool_adminBurn(s, from, amount) ==
    Pool_call("adminBurn", s, from, amount, "none",
              AdminExtension_adminBurn(pool, s, from, amount))

Pool_emergencyWithdraw(s, amount, success) ==
    LET r == AdminExtension_emergencyWithdraw(pool, s, amount, success) IN
    Pool_call("emergencyWithdraw", s, s, amount,
              IF r.err \in {Ok, Error("ETH transfer failed")} THEN Pool_sent(success)
              ELSE "none", r)

Pool_empty ==
    [balances |-> [a \in Pool_Target |-> 0], totalSupply |-> 0, owner |-> Deployer,
     buyRate |-> 0, sellRate |-> 0, admins |-> {}, eth |-> 0]

\* constructors, lines 332-347 and 444-452
Pool_Init ==
    \E initialSupply \in Uint, buyRate \in Pool_Rate, sellRate \in Pool_Rate :
        pool = [TokenBase_mint(Pool_empty, Deployer, initialSupply).st
                   EXCEPT !.buyRate = buyRate, !.sellRate = sellRate,
                          !.admins = {Deployer}]

Pool_Next ==
    \/ \E s \in Pool_Addr, to \in Pool_Target, a \in Uint : Pool_transfer(s, to, a)
    \/ \E s \in Pool_Addr, v \in Uint : Pool_buyTokens(s, v)
    \/ \E s \in Pool_Addr, a \in Uint, ok \in BOOLEAN : Pool_sellTokens(s, a, ok)
    \/ \E s \in Pool_Addr, b \in Pool_Rate, r \in Pool_Rate : Pool_updateRates(s, b, r)
    \/ \E s \in Pool_Addr, v \in Uint : Pool_receive(s, v)
    \/ \E s \in Pool_Addr, n \in Pool_Addr : Pool_addAdmin(s, n)
    \/ \E s \in Pool_Addr, to \in Pool_Target, a \in Uint : Pool_adminMint(s, to, a)
    \/ \E s \in Pool_Addr, from \in Pool_Target, a \in Uint : Pool_adminBurn(s, from, a)
    \/ \E s \in Pool_Addr, a \in Uint, ok \in BOOLEAN : Pool_emergencyWithdraw(s, a, ok)

----------------------------------------------------------------------------
(* ConstructorAndFallback      src/SolidityIntro/ConstructorAndFallback.sol 8-105 *)
(* The storage is handled as one record st:                                 *)
(*   owner, creationTime, lastCallValue, fallbackCallCount,                 *)
(*   lastFunctionCalled          the state variables of lines 10-14         *)
(*   eth                         address(this).balance                      *)

\* the accounts that use the deployment
CF_Addr == {"O", "A"}
\* block.timestamp of the deployment
CF_Time == {1, 2}
\* the functions a call can name: those of the source and the getters of its
\* public state variables; none of them is payable
CF_functions ==
    {"doSomething", "getBalance", "withdraw", "owner", "creationTime",
     "lastCallValue", "fallbackCallCount", "lastFunctionCalled"}
CF_views == CF_functions \ {"doSomething", "withdraw"}
\* the call data of a transaction: none (""), the call of a function, or data
\* that is the call of no function of the contract
CF_Data == {"", "doSomething", "getBalance", "withdraw", "fallbackCallCount", "0xabcdef"}

FallbackCalled(sender, value) ==
    [kind |-> "FallbackCalled", sender |-> sender, amount |-> value]
ReceiveCalled(sender, value) ==
    [kind |-> "ReceiveCalled", sender |-> sender, amount |-> value]

\* mutant: the contract has no receive(), empty call data goes to fallback()
CF_dispatch_noReceive(data) == IF data \in CF_functions THEN data ELSE "fallback"

\* what the EVM runs for a call with this call data: receive() for none (the
\* contract defines it, line 79), the function named, or else fallback()
CF_dispatch(data) ==
    IF data = "" THEN "receive"
    ELSE IF data \in CF_functions THEN data
    ELSE "fallback"

CF_fail(st, err) == [err |-> err, st |-> st, emitted |-> <<>>, paid |-> 0]

\* doSomething, lines 44-46
CF_doSomething(st) ==
    [err |-> Ok, st |-> [st EXCEPT !.lastFunctionCalled = "doSomething"],
     emitted |-> <<>>, paid |-> 0]

\* mutant: fallback does not count its calls
CF_fallback_uncounted(st, s, value) ==
    [err |-> Ok,
     st |-> [st EXCEPT !.lastCallValue = value,
                       !.lastFunctionCalled = "fallback",
                       !.eth = @ + value],
     emitted |-> <<FallbackCalled(s, value)>>, paid |-> 0]

\* fallback, lines 59-67
CF_fallback(st, s, value) ==
    IF ~AddFits(st.fallbackCallCount, 1) THEN CF_fail(st, Panic)
    ELSE [err |-> Ok,
          st |-> [st EXCEPT !.fallbackCallCount = @ + 1,
                            !.lastCallValue = value,
                            !.lastFunctionCalled = "fallback",
                            !.eth = @ + value],
          emitted |-> <<FallbackCalled(s, value)>>, paid |-> 0]

\* receive, lines 79-86
CF_receive(st, s, value) ==
    [err |-> Ok,
     st |-> [st EXCEPT !.lastCallValue = value,
                       !.lastFunctionCalled = "receive",
                       !.eth = @ + value],
     emitted |-> <<ReceiveCalled(s, value)>>, paid |-> 0]

\* getBalance, lines 91-93
CF_getBalance(st) == st.eth

\* mutant: withdraw does not check its caller
CF_withdraw_anyone(st, s, success) ==
    IF ~success THEN CF_fail(st, Error("Withdrawal failed"))
    ELSE [err |-> Ok, st |-> [st EXCEPT !.eth = 0], emitted |-> <<>>,
          paid |-> CF_getBalance(st)]

\* withdraw, lines 98-104; success is what the owner's account answers to the
\* Ether it is sent, paid is the Ether that leaves the contract.  withdraw
\* writes no storage, and a failure of the call reverts it, so what the owner
\* does during the call is the same as what it does in transactions after it.
CF_withdraw(st, s, success) ==
    IF ~(s = st.owner) THEN CF_fail(st, Error("Only owner can withdraw"))
    ELSE IF ~success THEN CF_fail(st, Error("Withdrawal failed"))
    ELSE [err |-> Ok, st |-> [st EXCEPT !.eth = 0], emitted |-> <<>>,
          paid |-> CF_getBalance(st)]

\* a transaction to the contract: call data, value, and the answer of the
\* recipient of the Ether the call sends, if it sends any
CF_run(st, s, data, value, success) ==
    LET fn == CF_dispatch(data) IN
    IF fn \in CF_functions /\ value > 0 THEN CF_fail(st, Error(""))
    ELSE IF fn = "receive" THEN CF_receive(st, s, value)
    ELSE IF fn = "fallback" THEN CF_fallback(st, s, value)
    ELSE IF fn = "doSomething" THEN CF_doSomething(st)
    ELSE IF fn = "withdraw" THEN CF_withdraw(st, s, success)
    ELSE [err |-> Ok, st |-> st, emitted |-> <<>>, paid |-> 0]

\* the record of a call keeps the call data next to the function that ran
CF_ret(data, s, value, sent, r) ==
    Ret("CF", CF_dispatch(data), s, s, value, 1, "returned", sent, r.err, r.emitted)
        @@ [data |-> data]

CF_call(s, data, value, success) ==
    /\ contract = "CF"
    /\ wallet[s] >= value
    /\ CF_dispatch(data) = "fallback" => cf.fallbackCallCount < MaxFallbacks
    /\ CF_dispatch(data) # "withdraw" => success
    /\ LET r == CF_run(cf, s, data, value, success)
           sent == IF CF_dispatch(data) = "withdraw"
                      /\ r.err \in {Ok, Error("Withdrawal failed")}
                   THEN (IF success THEN "ok" ELSE "failed") ELSE "none"
           moved == IF r.err = Ok THEN value ELSE 0
       IN  /\ cf' = r.st
           /\ wallet' = [[wallet EXCEPT ![s] = @ - moved]
                             EXCEPT ![cf.owner] = @ + r.paid]
           /\ ret' = CF_ret(data, s, value, sent, r)

CF_empty ==
    [owner |-> Deployer, creationTime |-> 0, lastCallValue |-> 0,
     fallbackCallCount |-> 0, lastFunctionCalled |-> "", eth |-> 0]

\* constructor, lines 29-39
CF_Init ==
    \E now \in CF_Time :
        cf = [CF_empty EXCEPT !.owner = Deployer, !.creationTime = now,
                              !.fallbackCallCount = 0,
                              !.lastFunctionCalled = "constructor"]

CF_Next ==
    \E s \in CF_Addr, data \in CF_Data, v \in 0..InitFunds, ok \in BOOLEAN :
        CF_call(s, data, v, ok)

----------------------------------------------------------------------------
(* SimpleStorage     src/SolidityIntro/CoreContracts/Simple_Storage.sol 13-52 *)
(*                   src/SolidityIntro/ConstructorAndFallback.sol 839-879     *)
(* The repository has two contracts of this name.  version tells which one  *)
(* is deployed:                                                             *)
(*   "core"   constructor(initialValue), set, get                           *)
(*   "intro"  constructor(), set, get, increment, decrement, event DataStored *)
(* The record holds storedData and, as history, the value of the most       *)
(* recent set (the constructor's value before any set) and the net count of *)
(* the increments and decrements that succeeded since.                      *)

SS_Addr == {"O", "A"}
SS_Version == {"core", "intro"}

DataStored(from, value) == [kind |-> "DataStored", from |-> from, amount |-> value]

\* mutant: set emits its event and does not write the value
SimpleStorage_set_keep(st, s, x) ==
    [err |-> Ok, st |-> st,
     emitted |-> IF st.version = "intro" THEN <<DataStored(s, x)>> ELSE <<>>]

\* set: Simple_Storage.sol lines 37-39, ConstructorAndFallback.sol lines 853-857
SimpleStorage_set(st, s, x) ==
    [err |-> Ok, st |-> [st EXCEPT !.storedData = x],
     emitted |-> IF st.version = "intro" THEN <<DataStored(s, x)>> ELSE <<>>]

\* get: Simple_Storage.sol lines 49-51, ConstructorAndFallback.sol lines 861-863
SimpleStorage_get(st) == st.storedData

\* increment, lines 866-869
SimpleStorage_increment(st, s) ==
    IF ~AddFits(st.storedData, 1) THEN [err |-> Panic, st |-> st, emitted |-> <<>>]
    ELSE [err |-> Ok, st |-> [st EXCEPT !.storedData = @ + 1],
          emitted |-> <<DataStored(s, st.storedData + 1)>>]

\* mutant: decrement without its check
SimpleStorage_decrement_require_off(storedData) == TRUE

\* decrement, line 875: require(storedData > 0, ...)
SimpleStorage_decrement_require(storedData) == storedData > 0

\* decrement, lines 873-878
SimpleStorage_decrement(st, s) ==
    IF ~SimpleStorage_decrement_require(st.storedData)
    THEN [err |-> Error("Cannot decrement below zero"), st |-> st, emitted |-> <<>>]
    ELSE IF ~SubFits(st.storedData, 1) THEN [err |-> Panic, st |-> st, emitted |-> <<>>]
    ELSE [err |-> Ok, st |-> [st EXCEPT !.storedData = @ - 1],
          emitted |-> <<DataStored(s, st.storedData - 1)>>]

\* one call of the deployment: r is the function's result, value the argument
\* or the value returned
SS_call(fn, s, value, r) ==
    /\ contract = "SimpleStorage"
    /\ ret' = Ret("SimpleStorage", fn, s, s, value, 1, "returned", "none", r.err, r.emitted)

\* constructors: Simple_Storage.sol lines 25-27 (any initial value),
\* ConstructorAndFallback.sol lines 847-849 (zero)
SimpleStorage_constructor(version, initialValue) ==
    [version |-> version, storedData |-> IF version = "intro" THEN 0 ELSE initialValue,
     lastSet |-> IF version = "intro" THEN 0 ELSE initialValue, adjust |-> 0]

\* the calls; besides the storage they keep the history: the value of the
\* most recent set, and the increments less the decrements since
SS_Next ==
    \/ \E s \in SS_Addr, x \in Uint :
          LET r == SimpleStorage_set(ss, s, x) IN
          /\ SS_call("set", s, x, r)
          /\ ss' = [r.st EXCEPT !.lastSet = x, !.adjust = 0]
    \/ \E s \in SS_Addr :
          /\ SS_call("get", s, SimpleStorage_get(ss), [err |-> Ok, emitted |-> <<>>])
          /\ UNCHANGED ss
    \/ \E s \in SS_Addr :
          LET r == SimpleStorage_increment(ss, s) IN
          /\ ss.version = "intro"
          /\ SS_call("increment", s, 0, r)
          /\ ss' = [r.st EXCEPT !.adjust = IF r.err = Ok THEN @ + 1 ELSE @]
    \/ \E s \in SS_Addr :
          LET r == SimpleStorage_decrement(ss, s) IN
          /\ ss.version = "intro"
          /\ SS_call("decrement", s, 0, r)
          /\ ss' = [r.st EXCEPT !.adjust = IF r.err = Ok THEN @ - 1 ELSE @]

----------------------------------------------------------------------------
(* The asynchronous demo                          src/Lecture7-Demo/index.js *)
(* One run of the script on the JavaScript event loop:                      *)
(*   pc       the next top-level statement of the script                    *)
(*   log      what console.log / console.error have printed, in order       *)
(*   now      the clock, in milliseconds since the script started           *)
(*   timers   the pending setTimeout timers: id (order of creation), due    *)
(*            time and callback                                             *)
(*   micro    the queue of promise jobs (microtasks)                        *)
(*   promise  the state of myPromise                                        *)
(* The script runs to its end first; then the loop empties the job queue,   *)
(* runs the timer that is due first, empties the job queue again, and so    *)
(* on.  Running code takes no time on the scale of the delays, so the clock *)
(* moves only while the loop waits for a timer.  The two fetch("") chains   *)
(* (sections 3 and 4) share nothing with the rest of the script and are     *)
(* represented by their synchronous logs; what they print when the network  *)
(* answers is not part of log.                                              *)

JS_noEffect == [log |-> <<>>, timers |-> <<>>, micro |-> <<>>, settle |-> "pending"]

\* console.log(msg)
JS_log(msg) == [JS_noEffect EXCEPT !.log = <<msg>>]

\* setTimeout(cb, delay)
JS_setTimeout(cb, delay) == [JS_noEffect EXCEPT !.timers = <<[cb |-> cb, delay |-> delay]>>]

\* mutant: the promise is resolved when it is made, not when the timer fires
delayedMessage_resolvesAtOnce(msg, delay, then) ==
    [JS_noEffect EXCEPT
        !.timers = <<[cb |-> [kind |-> "delayed", msg |-> msg, resolve |-> "none"],
                      delay |-> delay]>>,
        !.micro = <<[job |-> then, state |-> "fulfilled"]>>]

\* delayedMessage, lines 111-118: a timer whose callback logs msg and resolves
\* the promise returned; then names the job that waits for that promise
delayedMessage(msg, delay, then) ==
    JS_setTimeout([kind |-> "delayed", msg |-> msg, resolve |-> then], delay)

\* the top-level statements of the script, in order
JS_Script ==
    << JS_log("1. Start"),                                                \* line 10
       JS_setTimeout([kind |-> "log",
                      msg |-> "2. This message is delayed by 2 seconds."], 2000), \* 12
       JS_log("3. End"),                                                  \* line 16
       JS_setTimeout([kind |-> "log",
                      msg |-> "4. This runs last, despite 0ms delay."], 0), \* line 19
       JS_log("5. Synchronous code runs first."),                         \* line 23
       JS_setTimeout([kind |-> "settle"], 1500),                          \* lines 37-52
       JS_log("Fetching data..."),                                        \* line 63
       JS_log("Fetching data with async/await..."),                       \* lines 85, 99
       JS_log("Chaining Promises Start..."),                              \* line 120
       delayedMessage("Message 1 (1s delay)", 1000, "chain2"),            \* line 122
       JS_log("Async/Await Sequential Start..."),                         \* lines 139, 148
       delayedMessage("Async Message 1 (1s delay)", 1000, "async2"),      \* line 141
       JS_log("End of async programming examples.") >>                    \* line 168

\* mutant: catch runs its handler whatever the state of the promise it is on
JS_catchRuns_always(state) == TRUE

\* .catch(handler), line 51: the handler runs for a rejected promise only
JS_catchRuns(state) == state = "rejected"

\* the promise jobs of the script: the reactions of lines 50-52 and 123-125 and
\* the continuations of runAsyncOperations after each await (lines 141-145)
JS_job(j) ==
    IF j.job = "then"
    THEN IF j.state = "fulfilled"
         THEN [JS_log("Promise Result: Promise resolved successfully!")
                  EXCEPT !.micro = <<[job |-> "catch", state |-> "fulfilled"]>>]
         ELSE [JS_noEffect EXCEPT !.micro = <<[job |-> "catch", state |-> "rejected"]>>]
    ELSE IF j.job = "catch"
    THEN IF JS_catchRuns(j.state)
         THEN [JS_log("Promise Error: Promise was rejected.")
                  EXCEPT !.micro = <<[job |-> "finally", state |-> "fulfilled"]>>]
         ELSE [JS_noEffect EXCEPT !.micro = <<[job |-> "finally", state |-> j.state]>>]
    ELSE IF j.job = "finally" THEN JS_log("Promise Completed.")
    ELSE IF j.job = "chain2" THEN delayedMessage("Message 2 (1.5s delay)", 1500, "chain3")
    ELSE IF j.job = "chain3" THEN delayedMessage("Message 3 (0.5s delay)", 500, "chainDone")
    ELSE IF j.job = "chainDone" THEN JS_log("Chaining Completed.")
    ELSE IF j.job = "async2"
    THEN delayedMessage("Async Message 2 (1.5s delay)", 1500, "async3")
    ELSE IF j.job = "async3"
    THEN delayedMessage("Async Message 3 (0.5s delay)", 500, "asyncDone")
    ELSE IF j.job = "asyncDone" THEN JS_log("Async/Await Sequential Completed.")
    ELSE JS_noEffect

\* the callback of a timer; success is Math.random() > 0.5 of line 39
JS_callback(cb, success) ==
    IF cb.kind = "log" THEN JS_log(cb.msg)
    ELSE IF cb.kind = "settle"
    THEN [JS_noEffect EXCEPT
             !.settle = IF success THEN "fulfilled" ELSE "rejected",
             !.micro = <<[job |-> "then",
                          state |-> IF success THEN "fulfilled" ELSE "rejected"]>>]
    ELSE IF cb.resolve = "none" THEN JS_log(cb.msg)
    ELSE [JS_log(cb.msg) EXCEPT !.micro = <<[job |-> cb.resolve, state |-> "fulfilled"]>>]

\* mutant: the timers run in the order in which they were set
JS_nextTimer_fifo(timers) ==
    CHOOSE t \in timers : \A u \in timers : t.id <= u.id

\* the timer the loop runs next: the one due first, the older one of two that
\* are due together
JS_nextTimer(timers) ==
    CHOOSE t \in timers :
        \A u \in timers : t.due < u.due \/ (t.due = u.due /\ t.id <= u.id)

\* a piece of code has run: what it printed, set and queued
JS_apply(st, e) ==
    [st EXCEPT
        !.log = @ \o e.log,
        !.timers = @ \cup {[id |-> st.nextId + i - 1, due |-> st.now + e.timers[i].delay,
                             cb |-> e.timers[i].cb] : i \in DOMAIN e.timers},
        !.nextId = @ + Len(e.timers),
        !.micro = @ \o e.micro,
        !.promise = IF e.settle = "pending" THEN @ ELSE e.settle]

\* the next top-level statement runs
JS_runScript ==
    /\ contract = "JS"
    /\ js.pc <= Len(JS_Script)
    /\ js' = [JS_apply(js, JS_Script[js.pc]) EXCEPT !.pc = @ + 1]

\* the oldest promise job runs
JS_runMicrotask ==
    /\ contract = "JS"
    /\ js.pc > Len(JS_Script)
    /\ js.micro # <<>>
    /\ js' = JS_apply([js EXCEPT !.micro = Tail(@)], JS_job(Head(js.micro)))

\* the job queue is empty and a timer is due: its callback runs
JS_runTimer(success) ==
    /\ contract = "JS"
    /\ js.pc > Len(JS_Script)
    /\ js.micro = <<>>
    /\ js.timers # {}
    /\ LET t == JS_nextTimer(js.timers) IN
       /\ t.due <= js.now
       /\ t.cb.kind # "settle" => success
       /\ js' = JS_apply([js EXCEPT !.timers = @ \ {t}], JS_callback(t.cb, success))

\* nothing to run: the loop waits until the next timer is due
JS_wait ==
    /\ contract = "JS"
    /\ js.pc > Len(JS_Script)
    /\ js.micro = <<>>
    /\ js.timers # {}
    /\ LET t == JS_nextTimer(js.timers) IN
       /\ t.due > js.now
       /\ js' = [js EXCEPT !.now = t.due]

JS_Next ==
    \/ JS_runScript
    \/ JS_runMicrotask
    \/ \E success \in BOOLEAN : JS_runTimer(success)
    \/ JS_wait

----------------------------------------------------------------------------
(* MyToken, the ERC20 token                             src/unnamed/part_003 *)
(*                                                                           *)
(* MyToken adds pause, unpause and mint to the contracts it imports from     *)
(* OpenZeppelin (version 5: Ownable takes the initial owner).  The imported  *)
(* functions are modelled by what that version does.  Of ERC20Permit and     *)
(* ERC20Votes only what bears on balances is kept: permit sets an allowance  *)
(* as approve does, and ERC20Votes caps the supply; nonces, delegation and   *)
(* checkpoints move no tokens.  burnFrom, which spends an allowance as       *)
(* transferFrom does and then burns as burn does, is left out.  One unit of  *)
(* the model is the 100 tokens the constructor mints.                        *)

T_Addr == {"O", "A"}
\* the accounts that are given allowances
T_Spender == {"A"}
\* _mint(msg.sender, 100 * 10 ** decimals()), in units of 100 tokens
MyToken_initialSupply == 1
\* ERC20Votes._maxSupply(): type(uint208).max, below the largest uint256
ERC20Votes_maxSupply == MaxUint - 1

OwnableUnauthorizedAccount == Error("OwnableUnauthorizedAccount")

\* the outcome of a call: the error and the storage it leaves
OZ_revert(st, e) == [err |-> e, st |-> st]
OZ_return(st) == [err |-> Ok, st |-> st]

\* ERC20._update: the sender is debited (the zero address stands for minting),
\* the receiver credited (the zero address stands for burning)
ERC20_update(st, from, to, value) ==
    IF from = ZeroAddr /\ ~AddFits(st.totalSupply, value) THEN OZ_revert(st, Panic)
    ELSE IF from # ZeroAddr /\ st.balances[from] < value
    THEN OZ_revert(st, Error("ERC20InsufficientBalance"))
    ELSE LET debited ==
                 IF from = ZeroAddr THEN [st EXCEPT !.totalSupply = @ + value]
                 ELSE [st EXCEPT !.balances[from] = @ - value]
         IN  OZ_return(IF to = ZeroAddr THEN [debited EXCEPT !.totalSupply = @ - value]
                       ELSE [debited EXCEPT !.balances[to] = @ + value])

\* ERC20Pausable._update: whenNotPaused
ERC20Pausable_update(st, from, to, value) ==
    IF st.paused THEN OZ_revert(st, Error("EnforcedPause"))
    ELSE ERC20_update(st, from, to, value)

\* ERC20Votes._update: the parent's update, then the cap on the supply
ERC20Votes_update(st, from, to, value) ==
    LET r == ERC20Pausable_update(st, from, to, value) IN
    IF r.err = Ok /\ from = ZeroAddr /\ r.st.totalSupply > ERC20Votes_maxSupply
    THEN OZ_revert(st, Error("ERC20ExceededSafeSupply"))
    ELSE r

\* mutant: the update leaves ERC20Pausable out
MyToken_update_notPausable(st, from, to, value) ==
    LET r == ERC20_update(st, from, to, value) IN
    IF r.err = Ok /\ from = ZeroAddr /\ r.st.totalSupply > ERC20Votes_maxSupply
    THEN OZ_revert(st, Error("ERC20ExceededSafeSupply"))
    ELSE r

\* lines 96-101: super._update goes through ERC20Votes, ERC20Pausable, ERC20
MyToken_update(st, from, to, value) == ERC20Votes_update(st, from, to, value)

\* Ownable.onlyOwner
Ownable_onlyOwner(st, s) == st.owner = s

\* ERC20.transfer(to, value) called by from, and ERC20._transfer
ERC20_transfer(st, from, to, value) ==
    IF to = ZeroAddr THEN OZ_revert(st, Error("ERC20InvalidReceiver"))
    ELSE MyToken_update(st, from, to, value)

\* ERC20Burnable.burn(value) called by account
ERC20Burnable_burn(st, account, value) == MyToken_update(st, account, ZeroAddr, value)

\* ERC20._spendAllowance: the largest allowance is never used up
ERC20_spendAllowance(st, owner, spender, value) ==
    LET currentAllowance == st.allowances[owner][spender] IN
    IF currentAllowance = MaxUint THEN OZ_return(st)
    ELSE IF currentAllowance < value
    THEN OZ_revert(st, Error("ERC20InsufficientAllowance"))
    ELSE OZ_return([st EXCEPT !.allowances[owner][spender] = @ - value])

ERC20_approve(st, s, spender, value) ==
    IF spender = ZeroAddr THEN OZ_revert(st, Error("ERC20InvalidSpender"))
    ELSE OZ_return([st EXCEPT !.allowances[s][spender] = value])

ERC20_transferFrom(st, s, from, to, value) ==
    LET a == ERC20_spendAllowance(st, from, s, value) IN
    IF a.err # Ok THEN a
    ELSE LET r == ERC20_transfer(a.st, from, to, value) IN
         IF r.err # Ok THEN OZ_revert(st, r.err) ELSE r

\* lines 57-59: onlyOwner, then Pausable._pause (whenNotPaused)
MyToken_pause(st, s) ==
    IF ~Ownable_onlyOwner(st, s) THEN OZ_revert(st, OwnableUnauthorizedAccount)
    ELSE IF st.paused THEN OZ_revert(st, Error("EnforcedPause"))
    ELSE OZ_return([st EXCEPT !.paused = TRUE])

\* lines 67-69: onlyOwner, then Pausable._unpause (whenPaused)
MyToken_unpause(st, s) ==
    IF ~Ownable_onlyOwner(st, s) THEN OZ_revert(st, OwnableUnauthorizedAccount)
    ELSE IF ~st.paused THEN OZ_revert(st, Error("ExpectedPause"))
    ELSE OZ_return([st EXCEPT !.paused = FALSE])

\* lines 79-81: onlyOwner, then ERC20._mint
MyToken_mint(st, s, to, amount) ==
    IF ~Ownable_onlyOwner(st, s) THEN OZ_revert(st, OwnableUnauthorizedAccount)
    ELSE IF to = ZeroAddr THEN OZ_revert(st, Error("ERC20InvalidReceiver"))
    ELSE MyToken_update(st, ZeroAddr, to, amount)

Ownable_transferOwnership(st, s, newOwner) ==
    IF ~Ownable_onlyOwner(st, s) THEN OZ_revert(st, OwnableUnauthorizedAccount)
    ELSE IF newOwner = ZeroAddr THEN OZ_revert(st, Error("OwnableInvalidOwner"))
    ELSE OZ_return([st EXCEPT !.owner = newOwner])

Ownable_renounceOwnership(st, s) ==
    IF ~Ownable_onlyOwner(st, s) THEN OZ_revert(st, OwnableUnauthorizedAccount)
    ELSE OZ_return([st EXCEPT !.owner = ZeroAddr])

\* one call of the deployment, of which ret keeps the function, the caller and
\* the outcome; the history field everPaused records that the token has been
\* paused at some time
T_call(fn, s, r) ==
    /\ contract = "ERC20"
    /\ ret' = Ret("ERC20", fn, s, ZeroAddr, 0, 1, "returned", "none", r.err, <<>>)
    /\ token' = [r.st EXCEPT !.everPaused = @ \/ r.st.paused]

\* constructor, lines 41-49: the owner is initialOwner (Ownable rejects the
\* zero address), the initial supply goes to the deployer
MyToken_constructor(initialOwner) ==
    [owner |-> initialOwner, paused |-> FALSE, everPaused |-> FALSE,
     totalSupply |-> MyToken_initialSupply,
     balances |-> [a \in T_Addr |-> IF a = Deployer THEN MyToken_initialSupply ELSE 0],
     allowances |-> [a \in T_Addr |-> [b \in T_Addr |-> 0]]]

T_Next ==
    \/ \E s \in T_Addr, to \in T_Addr \cup {ZeroAddr}, value \in Uint :
          T_call("transfer", s, ERC20_transfer(token, s, to, value))
    \/ \E s \in T_Addr : \E spender \in (T_Spender \cup {ZeroAddr}) \ {s}, value \in Uint :
          T_call("approve", s, ERC20_approve(token, s, spender, value))
    \/ \E s \in T_Addr, from \in T_Addr, to \in T_Addr \cup {ZeroAddr}, value \in Uint :
          T_call("transferFrom", s, ERC20_transferFrom(token, s, from, to, value))
    \/ \E s \in T_Addr, value \in Uint :
          T_call("burn", s, ERC20Burnable_burn(token, s, value))
    \/ \E s \in T_Addr : T_call("pause", s, MyToken_pause(token, s))
    \/ \E s \in T_Addr : T_call("unpause", s, MyToken_unpause(token, s))
    \/ \E s \in T_Addr, to \in T_Addr \cup {ZeroAddr}, amount \in Uint :
          T_call("mint", s, MyToken_mint(token, s, to, amount))
    \/ \E s \in T_Addr, newOwner \in T_Addr \cup {ZeroAddr} :
          T_call("transferOwnership", s, Ownable_transferOwnership(token, s, newOwner))
    \/ \E s \in T_Addr :
          T_call("renounceOwnership", s, Ownable_renounceOwnership(token, s))

----------------------------------------------------------------------------
(* MyToken, the ERC721 collection                       src/unnamed/part_004 *)
(*                                                                           *)
(* MyToken adds safeMint, tokenURI and integerToString to the contracts it   *)
(* imports from OpenZeppelin (version 5), which are modelled by what that    *)
(* version does.  Approvals are left out (approve and setApprovalForAll only *)
(* widen who may move or burn a token), so a token is moved or burned by the *)
(* account that owns it.  _safeMint calls onERC721Received of a receiver     *)
(* that has code: the receiver may make a call of its own before it answers, *)
(* and a wrong answer reverts the mint with all that happened in it.         *)

N_Addr == {"O", "A"}
\* the token ids a uint256 counter can hand out
N_Id == 0..(MaxUint - 1)

\* ERC721Burnable.burn: _update(address(0), tokenId, _msgSender())
ERC721Burnable_burn(st, s, tokenId) ==
    IF st.owners[tokenId] = ZeroAddr THEN OZ_revert(st, Error("ERC721NonexistentToken"))
    ELSE IF st.owners[tokenId] # s THEN OZ_revert(st, Error("ERC721InsufficientApproval"))
    ELSE OZ_return([st EXCEPT !.owners[tokenId] = ZeroAddr])

\* ERC721.transferFrom(from, to, tokenId) called by from
ERC721_transferFrom(st, from, to, tokenId) ==
    IF to = ZeroAddr THEN OZ_revert(st, Error("ERC721InvalidReceiver"))
    ELSE IF st.owners[tokenId] = ZeroAddr
    THEN OZ_revert(st, Error("ERC721NonexistentToken"))
    ELSE IF st.owners[tokenId] # from
    THEN OZ_revert(st, Error("ERC721InsufficientApproval"))
    ELSE OZ_return([st EXCEPT !.owners[tokenId] = to])

\* mutant: the id is the lowest one that no token has
safeMint_tokenId_lowestFree(st) ==
    IF \E i \in N_Id : st.owners[i] = ZeroAddr
    THEN CHOOSE i \in N_Id :
            st.owners[i] = ZeroAddr /\ \A j \in N_Id : st.owners[j] = ZeroAddr => i <= j
    ELSE st.nextTokenId

\* line 71: the value of _nextTokenId++
safeMint_tokenId(st) == st.nextTokenId

\* ERC721._mint, of a token whose id the counter has handed out; the history
\* field mints lists the ids minted
ERC721_mint_(st, to, tokenId) ==
    IF to = ZeroAddr THEN OZ_revert(st, Error("ERC721InvalidReceiver"))
    ELSE IF st.owners[tokenId] # ZeroAddr THEN OZ_revert(st, Error("ERC721InvalidSender"))
    ELSE OZ_return([st EXCEPT !.owners[tokenId] = to, !.mints = Append(@, tokenId)])

\* lines 70-73, for a receiver without code: onlyOwner, the counter, _safeMint
MyToken_safeMint_plain(st, s, to) ==
    IF ~Ownable_onlyOwner(st, s) THEN OZ_revert(st, OwnableUnauthorizedAccount)
    ELSE IF ~AddFits(st.nextTokenId, 1) THEN OZ_revert(st, Panic)
    ELSE LET r == ERC721_mint_([st EXCEPT !.nextTokenId = @ + 1], to, safeMint_tokenId(st))
         IN  IF r.err # Ok THEN OZ_revert(st, r.err) ELSE r

\* the calls a receiver makes from onERC721Received
N_Nested ==
    [fn : {"none"}, to : {ZeroAddr}, tokenId : {0}]
    \cup [fn : {"safeMint", "transferOwnership"}, to : N_Addr, tokenId : {0}]
    \cup [fn : {"burn"}, to : {ZeroAddr}, tokenId : N_Id]

\* the storage after the call c of the receiver s; a call that fails changes
\* nothing
N_nested(st, s, c) ==
    IF c.fn = "safeMint" THEN MyToken_safeMint_plain(st, s, c.to).st
    ELSE IF c.fn = "transferOwnership" THEN Ownable_transferOwnership(st, s, c.to).st
    ELSE IF c.fn = "burn" THEN ERC721Burnable_burn(st, s, c.tokenId).st
    ELSE st

\* lines 70-73: hasCode says that the receiver is a contract, nested what it
\* calls from onERC721Received, accepts that it answers with the selector
MyToken_safeMint(st, s, to, hasCode, nested, accepts) ==
    LET r == MyToken_safeMint_plain(st, s, to) IN
    IF r.err # Ok \/ ~hasCode THEN r
    ELSE IF ~accepts THEN OZ_revert(st, Error("ERC721InvalidReceiver"))
    ELSE OZ_return(N_nested(r.st, to, nested))

\* one call of the deployment; value is the token the call is about
N_call(fn, s, to, value, r) ==
    /\ contract = "NFT"
    /\ ret' = Ret("NFT", fn, s, to, value, 1, "returned", "none", r.err, <<>>)
    /\ nft' = r.st

\* constructor, lines 43-46: the owner is initialOwner (Ownable rejects the
\* zero address)
MyNFT_constructor(initialOwner) ==
    [owner |-> initialOwner, nextTokenId |-> 0, owners |-> [i \in N_Id |-> ZeroAddr],
     mints |-> <<>>]

N_Next ==
    \/ \E s \in N_Addr, to \in N_Addr \cup {ZeroAddr}, hasCode \in BOOLEAN,
          nested \in N_Nested, accepts \in BOOLEAN :
          /\ hasCode \/ (nested.fn = "none" /\ accepts)
          /\ accepts \/ nested.fn = "none"
          /\ N_call("safeMint", s, to,
                    IF AddFits(nft.nextTokenId, 1) THEN safeMint_tokenId(nft) ELSE 0,
                    MyToken_safeMint(nft, s, to, hasCode, nested, accepts))
    \/ \E s \in N_Addr, tokenId \in N_Id :
          N_call("burn", s, ZeroAddr, tokenId, ERC721Burnable_burn(nft, s, tokenId))
    \/ \E s \in N_Addr, to \in N_Addr \cup {ZeroAddr}, tokenId \in N_Id :
          N_call("transferFrom", s, to, tokenId, ERC721_transferFrom(nft, s, to, tokenId))
    \/ \E s \in N_Addr, newOwner \in N_Addr \cup {ZeroAddr} :
          N_call("transferOwnership", s, newOwner, 0,
                 Ownable_transferOwnership(nft, s, newOwner))
    \/ \E s \in N_Addr :
          N_call("renounceOwnership", s, ZeroAddr, 0, Ownable_renounceOwnership(nft, s))

----------------------------------------------------------------------------
(* MyToken.integerToString                      src/unnamed/part_004 106-130 *)
(*                                                                           *)
(* One call of the function, statement by statement.  A string is the        *)
(* sequence of its bytes (48 is the character 0); byte i of the code's       *)
(* buffer is element i + 1 of the model's.  The arguments are far below the  *)
(* largest uint256, so of the checked operations only digits -= 1 can fail.  *)

\* mutant: the digit is not made a character
ITS_digit_noOffset(v) == (v % 10) % 256

\* line 124: bytes1(uint8(48 + _value % 10)); the conversion to uint8 truncates
ITS_digit(v) == (48 + (v % 10)) % 256

\* lines 108-115: the edge case, then temp and digits are set up
ITS_enter ==
    /\ its.pc = "entry"
    /\ its' = IF its._value = 0
              THEN [its EXCEPT !.pc = "returned", !.result = <<48>>]
              ELSE [its EXCEPT !.pc = "count", !.temp = its._value, !.digits = 0]

\* lines 115-118: one turn of the first loop
ITS_count ==
    /\ its.pc = "count"
    /\ its.temp # 0
    /\ its' = [its EXCEPT !.digits = @ + 1, !.temp = @ \div 10]

\* line 121: new bytes(digits), filled with zero bytes
ITS_alloc ==
    /\ its.pc = "count"
    /\ its.temp = 0
    /\ its' = [its EXCEPT !.pc = "fill", !.buffer = [i \in 1..its.digits |-> 0]]

\* lines 122-127: one turn of the second loop
ITS_fill ==
    /\ its.pc = "fill"
    /\ its._value # 0
    /\ its' = IF ~SubFits(its.digits, 1) THEN [its EXCEPT !.pc = "panic"]
              ELSE IF its.digits - 1 >= Len(its.buffer) THEN [its EXCEPT !.pc = "panic"]
              ELSE [its EXCEPT !.digits = @ - 1,
                               !.buffer[its.digits] = ITS_digit(its._value),
                               !._value = @ \div 10]

\* line 129
ITS_return ==
    /\ its.pc = "fill"
    /\ its._value = 0
    /\ its' = [its EXCEPT !.pc = "returned", !.result = its.buffer]

ITS_call(v) ==
    [pc |-> "entry", value |-> v, _value |-> v, temp |-> 0, digits |-> 0,
     buffer |-> <<>>, result |-> <<>>]

ITS_Next ==
    /\ contract = "integerToString"
    /\ \/ ITS_enter
       \/ ITS_count
       \/ ITS_alloc
       \/ ITS_fill
       \/ ITS_return

----------------------------------------------------------------------------
(* The deployment *)

Contracts == {"SP", "Coin", "SimpleCoin", "Pool", "CF"}
\* the programs of the second part: SimpleStorage, the asynchronous demo, the
\* two OpenZeppelin tokens and a call of integerToString
Programs == {"SimpleStorage", "JS", "ERC20", "NFT", "integerToString"}

\* storage of a contract that is not the deployed one
SP_Idle == SP_Init
Coin_Idle == Coin_Init
SimpleCoin_Idle ==
    /\ sc_owner = Deployer
    /\ sc_balanceOf = [a \in Addr |-> 0]

progVars == <<ss, js, token, nft, its>>

\* the start of the program that is selected, the others at their defaults
Programs_Init ==
    /\ \E v \in (IF contract = "SimpleStorage" THEN SS_Version ELSE {"intro"}),
          initialValue \in Uint :
          /\ v = "intro" => initialValue = 0
          /\ ss = SimpleStorage_constructor(v, initialValue)
    /\ js = [pc |-> 1, log |-> <<>>, now |-> 0, timers |-> {}, nextId |-> 1,
             micro |-> <<>>, promise |-> "pending"]
    /\ \E initialOwner \in (IF contract = "ERC20" THEN T_Addr ELSE {Deployer}) :
          token = MyToken_constructor(initialOwner)
    /\ \E initialOwner \in (IF contract = "NFT" THEN N_Addr ELSE {Deployer}) :
          nft = MyNFT_constructor(initialOwner)
    /\ \E v \in (IF contract = "integerToString" THEN 0..MaxValue ELSE {0}) :
          its = ITS_call(v)

Contracts_Init ==
    /\ ret = NoRet
    /\ wallet = [a \in Addr |-> InitFunds]
    /\ IF contract = "SP" THEN SP_Init ELSE SP_Idle
    /\ IF contract = "Coin" THEN Coin_Init ELSE Coin_Idle
    /\ IF contract = "SimpleCoin" THEN SimpleCoin_Init ELSE SimpleCoin_Idle
    /\ IF contract = "Pool" THEN Pool_Init ELSE pool = Pool_empty
    /\ IF contract = "CF" THEN CF_Init ELSE cf = CF_empty

Init ==
    /\ contract \in Contracts
    /\ Contracts_Init
    /\ Programs_Init

Next ==
    \/ SP_Next /\ UNCHANGED <<contract, coinVars, scVars, pool, cf, progVars>>
    \/ Coin_Next /\ UNCHANGED <<contract, wallet, spVars, scVars, pool, cf, progVars>>
    \/ SimpleCoin_Next /\ UNCHANGED <<contract, wallet, spVars, coinVars, pool, cf, progVars>>
    \/ Pool_Next /\ UNCHANGED <<contract, wallet, spVars, coinVars, scVars, cf, progVars>>
    \/ CF_Next /\ UNCHANGED <<contract, spVars, coinVars, scVars, pool, progVars>>

Spec == Init /\ [][Next]_vars

\* SecurityPitfalls alone, with the balance queries among its calls
SP_QueryInit ==
    /\ contract = "SP"
    /\ Contracts_Init
    /\ Programs_Init

SP_QueryNext ==
    \/ SP_Next /\ UNCHANGED <<contract, coinVars, scVars, pool, cf, progVars>>
    \/ /\ \E s \in SP_Addr : SP_view("balances", s)
       /\ UNCHANGED <<contract, coinVars, scVars, pool, cf, progVars>>
    \/ /\ \E s \in SP_Addr : SP_view("getContractBalance", s)
       /\ UNCHANGED <<contract, coinVars, scVars, pool, cf, progVars>>

SpecQueries == SP_QueryInit /\ [][SP_QueryNext]_vars

\* the programs of the second part, one of them selected
ProgramsInit ==
    /\ contract \in Programs
    /\ Contracts_Init
    /\ Programs_Init

ProgramsNext ==
    \/ SS_Next /\ UNCHANGED <<contract, wallet, spVars, coinVars, scVars, pool, cf,
                              js, token, nft, its>>
    \/ JS_Next /\ UNCHANGED <<contract, ret, wallet, spVars, coinVars, scVars, pool, cf,
                              ss, token, nft, its>>
    \/ T_Next /\ UNCHANGED <<contract, wallet, spVars, coinVars, scVars, pool, cf,
                             ss, js, nft, its>>
    \/ N_Next /\ UNCHANGED <<contract, wallet, spVars, coinVars, scVars, pool, cf,
                             ss, js, token, its>>
    \/ ITS_Next /\ UNCHANGED <<contract, ret, wallet, spVars, coinVars, scVars, pool, cf,
                               ss, js, token, nft>>

SpecPrograms == ProgramsInit /\ [][ProgramsNext]_vars

----------------------------------------------------------------------------
(* Properties *)

SP_frames(fn) == {i \in DOMAIN sp_stack : sp_stack[i].fn = fn}
SP_top == sp_stack[Len(sp_stack)]
ReentrantCall == Error("Reentrant call detected")
TransferFailed == Error("Transfer failed")

\* C1 - Conservation.  Whatever calls have been made, the recorded total equals
\* the sum of the balances: in the token hierarchy _totalSupply is the sum of
\* _balances, and between the transactions of SecurityPitfalls the value the
\* contract holds (what deposit adds to and withdraw pays from) is the sum of
\* balances.
C1_Conservation ==
    /\ contract = "Pool" => TokenPool_totalSupply = Sum(pool.balances)
    /\ (contract = "SP" /\ sp_stack = <<>>) => SP_getContractBalance = Sum(sp_balances)

C1_Witness ==
    /\ contract = "Pool"
    /\ ret.fn = "adminBurn" /\ ret.err = Ok
    /\ TokenPool_balanceOf("O") > 0 /\ TokenPool_balanceOf("A") > 0

\* C2 - Reentrancy rejection.  A safeWithdraw called while another safeWithdraw
\* is in its external call is rejected with "Reentrant call detected", so no two
\* of them are ever in flight together; a safeWithdraw that is a transaction of
\* its own is never rejected as reentrant: when it fails, it is for an
\* insufficient balance or a failed transfer.
C2_ReentrancyRejected ==
    contract = "SP" =>
        /\ Cardinality(SP_frames("safeWithdraw")) <= 1
        /\ ( /\ ret.fn = "safeWithdraw" /\ ret.phase = "returned"
             /\ ret.depth = Len(sp_stack) + 1
             /\ SP_frames("safeWithdraw") # {} )
           => ret.err = ReentrantCall
        /\ (ret.fn = "safeWithdraw" /\ ret.phase = "returned" /\ ret.depth = 1
                /\ ret.err # Ok)
           => \/ ret.err = Error("Insufficient balance")
                   /\ ret.amount > sp_balances[ret.sender]
              \/ ret.err = TransferFailed /\ ret.sent = "failed"

\* a safeWithdraw of its own transaction succeeded after a nested one was rejected
C2_Witness ==
    /\ sp_seenReentry
    /\ ret.fn = "safeWithdraw" /\ ret.phase = "returned" /\ ret.depth = 1
    /\ ret.err = Ok /\ ret.amount > 0

\* C3 - Checks-effects-interactions.  Every safeWithdraw whose external call is
\* in flight passed the sufficiency check, and when its external call started
\* balances[caller] already was the old value minus the amount.
C3_ChecksEffectsInteractions ==
    contract = "SP" =>
        /\ \A i \in SP_frames("safeWithdraw") :
              LET f == sp_stack[i] IN
              /\ f.amount <= f.snap.balances[f.sender]
              /\ f.balAtCall = f.snap.balances[f.sender] - f.amount
        /\ (ret.fn = "safeWithdraw" /\ ret.phase = "interaction")
           => sp_balances[ret.sender] = SP_top.snap.balances[ret.sender] - ret.amount

C3_Witness ==
    /\ contract = "SP"
    /\ ret.fn = "safeWithdraw" /\ ret.phase = "interaction" /\ ret.amount > 0

\* C4 - Lock discipline.  The lock is held exactly while a safeWithdraw is in
\* flight; in particular it is free between transactions, whatever the exits of
\* the earlier calls were.
C4_LockDiscipline ==
    /\ sp_locked <=> (SP_frames("safeWithdraw") # {})
    /\ sp_stack = <<>> => ~sp_locked

\* a safeWithdraw has failed on its external transfer and the lock is free
C4_Witness ==
    /\ ret.contract = "SP" /\ ret.fn = "safeWithdraw" /\ ret.phase = "returned"
    /\ ret.depth = 1 /\ ret.sent = "failed" /\ ~sp_locked

\* the innermost withdrawal is a safeWithdraw and this step ends it with a
\* failed external transfer
C5_TransferFails ==
    /\ contract = "SP"
    /\ Len(sp_stack') < Len(sp_stack)
    /\ ret'.fn = "safeWithdraw"
    /\ ret'.sent = "failed"

\* C5 as claimed - after a safeWithdraw whose external transfer failed,
\* balances[caller] keeps the value it had after the decrement.
C5_DecrementKept ==
    [][C5_TransferFails =>
          /\ ret'.err = TransferFailed
          /\ sp_balances'[ret'.sender] = SP_top.balAtCall]_vars

\* C5 as amended - a safeWithdraw whose external transfer failed fails with
\* "Transfer failed" and everything it did is undone: balances (the caller's
\* decrement included) and the Ether positions are those of before the call.
C5_DecrementRolledBack ==
    [][C5_TransferFails =>
          /\ ret'.err = TransferFailed
          /\ sp_balances' = SP_top.snap.balances
          /\ sp_balances'[ret'.sender] = SP_top.balAtCall + ret'.amount
          /\ sp_eth' = SP_top.snap.eth
          /\ wallet' = SP_top.snap.wallet]_vars

C5_Witness ==
    /\ ret.contract = "SP" /\ ret.fn = "safeWithdraw" /\ ret.phase = "returned"
    /\ ret.sent = "failed" /\ ret.err = TransferFailed
    /\ ret.depth = 1 /\ ret.amount > 0
    /\ sp_balances[ret.sender] >= ret.amount

\* C6 as claimed - an unsafeWithdraw whose external call succeeded goes through,
\* also when the recipient re-entered unsafeWithdraw during that call and was
\* paid again against the balance that was not yet decremented.
C6_ReentrantPayoutCompletes ==
    (ret.contract = "SP" /\ ret.fn = "unsafeWithdraw" /\ ret.phase = "returned"
        /\ ret.sent = "ok")
    => ret.err = Ok

\* C7 - Authorization.  A mint or a safeChangeOwner whose caller is not the
\* owner (minter) at that time fails with the contract's not-authorized error
\* and changes nothing.
C7_Authorization ==
    [][ /\ (ret'.contract = "Coin" /\ ret'.fn = "mint" /\ ret'.sender # coin_minter)
           => /\ ret'.err = Error("Only the minter can create new coins")
              /\ UNCHANGED <<coin_balances, coin_minter>>
        /\ (ret'.contract = "SimpleCoin" /\ ret'.fn = "mint" /\ ret'.sender # sc_owner)
           => /\ ret'.err = Error("Only owner can mint")
              /\ UNCHANGED <<sc_balanceOf, sc_owner>>
        /\ (ret'.contract = "SP" /\ ret'.fn = "safeChangeOwner"
                /\ ret'.sender # sp_owner)
           => /\ ret'.err = Error("Not the owner")
              /\ UNCHANGED <<sp_owner, sp_balances, sp_locked, sp_eth, wallet>>
      ]_vars

C7_Witness ==
    /\ ret.contract = "Coin" /\ ret.fn = "mint"
    /\ ret.sender # coin_minter /\ ret.amount > 0
    /\ ret.err = Error("Only the minter can create new coins")

\* C8 as claimed - owner changes only by a successful ownership-transfer call
\* made by the owner of that time.
C8_OnlyOwnerChangesOwner ==
    [][sp_owner' # sp_owner =>
          /\ ret'.fn \in {"safeChangeOwner", "unsafeChangeOwner"}
          /\ ret'.err = Ok
          /\ ret'.sender = sp_owner]_vars

\* C8 as amended - owner is the deployer after construction and changes only by
\* a successful safeChangeOwner made by the owner of that time, or by an
\* unsafeChangeOwner, which any caller can make.  The minter of Coin and the
\* owners of SimpleCoin and TokenPool never change.
C8_OwnerMutability ==
    /\ sp_owner = Deployer /\ coin_minter = Deployer /\ sc_owner = Deployer
    /\ [][ /\ sp_owner' # sp_owner =>
                /\ ret'.err = Ok
                /\ \/ ret'.fn = "safeChangeOwner" /\ ret'.sender = sp_owner
                   \/ ret'.fn = "unsafeChangeOwner"
           /\ UNCHANGED <<coin_minter, sc_owner>>
           /\ pool'.owner = pool.owner
         ]_vars

\* an account that was given the ownership hands it on by unsafeChangeOwner
C8_Witness ==
    /\ contract = "SP" /\ ret.fn = "unsafeChangeOwner" /\ ret.err = Ok
    /\ ret.sender # Deployer /\ sp_owner # ret.sender

\* C9 - Non-negativity.  No balance is ever negative, and a transfer, burn or
\* withdraw that asks for more than the caller's balance is rejected with all
\* balances and the total supply as they were: the functions return an error
\* and the unchanged storage, and no withdrawal that asks for more than the
\* balance reaches its external call.
C9_NonNegativity ==
    /\ \A a \in Addr : sp_balances[a] >= 0 /\ coin_balances[a] >= 0 /\ sc_balanceOf[a] >= 0
    /\ \A a \in Pool_Target : pool.balances[a] >= 0
    /\ pool.totalSupply >= 0
    /\ \A s \in Addr, r \in Addr, a \in Uint :
          /\ a > coin_balances[s] =>
                LET x == Coin_send_result(coin_balances, s, r, a) IN
                x.err # Ok /\ x.balances = coin_balances
          /\ a > sc_balanceOf[s] =>
                LET x == SimpleCoin_transfer_result(sc_balanceOf, s, r, a) IN
                x.err # Ok /\ x.balanceOf = sc_balanceOf
    /\ \A s \in Pool_Addr, r \in Pool_Target, a \in Uint :
          a > pool.balances[s] =>
             /\ LET x == TokenPool_transfer(pool, s, r, a) IN x.err # Ok /\ x.st = pool
             /\ LET x == TokenBase_burn(pool, s, a) IN x.err # Ok /\ x.st = pool
             /\ \A ok \in BOOLEAN :
                   LET x == TokenPool_sellTokens(pool, s, a, ok) IN
                   x.err # Ok /\ x.st = pool
    /\ \A i \in DOMAIN sp_stack :
          sp_stack[i].amount <= sp_stack[i].snap.balances[sp_stack[i].sender]
    /\ (ret.contract = "SP" /\ ret.fn \in {"safeWithdraw", "unsafeWithdraw"}
            /\ ret.err = Error("Insufficient balance"))
       => ret.amount > sp_balances[ret.sender]

\* a send that asked for more than the sender owns has been rejected
C9_Witness ==
    /\ ret.contract = "Coin" /\ ret.fn = "send"
    /\ ret.amount > coin_balances[ret.sender] /\ coin_balances[ret.sender] > 0
    /\ ret.err # Ok

\* C10 - A send of more than the sender's balance fails with
\* InsufficientBalance whose requested field is the amount asked for and whose
\* available field is the sender's balance at the time of the call.
C10_InsufficientBalanceFields ==
    /\ \A s \in Addr, r \in Addr, a \in Uint :
          a > coin_balances[s] =>
             Coin_send_result(coin_balances, s, r, a).err
                = <<"InsufficientBalance", a, coin_balances[s]>>
    /\ (ret.contract = "Coin" /\ ret.fn = "send" /\ ret.err # Ok /\ ret.err # Panic)
       => ret.err = <<"InsufficientBalance", ret.amount, coin_balances[ret.sender]>>

\* mint(O, A, 3), send(A, B, 1), then send(A, B, 3): requested 3, available 2
C10_Witness ==
    /\ ret.contract = "Coin" /\ ret.fn = "send" /\ ret.sender = "A"
    /\ coin_balances["A"] = 2 /\ coin_balances["B"] = 1
    /\ ret.err = <<"InsufficientBalance", 3, 2>>

\* the accounts whose mint call can succeed in the current state
Coin_minters ==
    {s \in Addr : \E r \in Addr, a \in Uint :
        Coin_mint_result(coin_minter, coin_balances, s, r, a).err = Ok}
SimpleCoin_minters ==
    {s \in Addr : \E r \in Addr, a \in Uint :
        SimpleCoin_mint_result(sc_owner, sc_balanceOf, s, r, a).err = Ok}
Pool_minters ==
    {s \in Pool_Addr : \E to \in Pool_Target, a \in Uint :
        AdminExtension_adminMint(pool, s, to, a).err = Ok}

\* C11 as claimed - Single owner: there are never two distinct accounts that
\* can both mint successfully.
C11_SingleOwner ==
    /\ Cardinality(Coin_minters) <= 1
    /\ Cardinality(SimpleCoin_minters) <= 1
    /\ Cardinality(Pool_minters) <= 1

\* C11 as amended - In Coin and in SimpleCoin exactly one account can mint, the
\* minter (owner).  In AdminExtension the accounts that can mint are exactly the
\* admins: the deployer is one of them and addAdmin can make more, so two
\* distinct accounts can both mint.
C11_MintRights ==
    /\ Coin_minters = {coin_minter}
    /\ SimpleCoin_minters = {sc_owner}
    /\ contract = "Pool" =>
          /\ Pool_minters = pool.admins \cap Pool_Addr
          /\ Deployer \in pool.admins

\* a second admin exists and an adminMint has succeeded
C11_Witness ==
    /\ contract = "Pool"
    /\ Cardinality(pool.admins) = 2
    /\ ret.fn = "adminMint" /\ ret.err = Ok
    /\ pool.balances["A"] > 0

\* the call that has just returned
Returned(c, fns) == ret.contract = c /\ ret.fn \in fns /\ ret.phase = "returned"

\* C12 as claimed - every successful mint, transfer, burn and withdraw appends
\* exactly one event record, and a failed one appends none.
C12_OneEventPerOperation ==
    /\ ret.err # Ok => ret.emitted = <<>>
    /\ ( /\ \/ Returned("Coin", {"mint", "send"})
             \/ Returned("SimpleCoin", {"mint", "transfer"})
             \/ Returned("SP", {"safeWithdraw", "unsafeWithdraw"})
          /\ ret.err = Ok )
       => Len(ret.emitted) = 1

\* C12 as amended - a successful send, transfer, deposit or withdraw, and a
\* successful mint, transfer or burn of TokenBase, appends exactly one event
\* record, which carries the accounts and the amount of the call; a successful
\* Coin.mint appends none and a successful SimpleCoin.mint appends two (Mint,
\* and Transfer from the zero address); a failed operation appends none.  What
\* an operation writes to the ledger is its documented effect and nothing else.
C12_EventLog ==
    /\ ret.err # Ok => ret.emitted = <<>>
    /\ (Returned("Coin", {"send"}) /\ ret.err = Ok)
       => ret.emitted = <<Sent(ret.sender, ret.to, ret.amount)>>
    /\ (Returned("Coin", {"mint"}) /\ ret.err = Ok) => ret.emitted = <<>>
    /\ (Returned("SimpleCoin", {"transfer"}) /\ ret.err = Ok)
       => ret.emitted = <<TransferEvent(ret.sender, ret.to, ret.amount)>>
    /\ (Returned("SimpleCoin", {"mint"}) /\ ret.err = Ok)
       => ret.emitted = <<MintEvent(ret.to, ret.amount),
                          TransferEvent(ZeroAddr, ret.to, ret.amount)>>
    /\ (Returned("SP", {"deposit", "receive"}) /\ ret.err = Ok)
       => ret.emitted = <<DepositEvent(ret.sender, ret.amount)>>
    /\ (Returned("SP", {"safeWithdraw", "unsafeWithdraw"}) /\ ret.err = Ok)
       => ret.emitted = <<Withdrawal(ret.sender, ret.amount)>>
    /\ \A s \in Addr, r \in Addr, a \in Uint :
          LET x == Coin_send_result(coin_balances, s, r, a) IN
          /\ x.err # Ok => x.emitted = <<>> /\ x.balances = coin_balances
          /\ x.err = Ok =>
                /\ Len(x.emitted) = 1
                /\ x.balances =
                     [[coin_balances EXCEPT ![s] = @ - a] EXCEPT ![r] = @ + a]
    /\ \A s \in Pool_Addr, t \in Pool_Target, a \in Uint :
          /\ LET x == TokenPool_transfer(pool, s, t, a) IN
             x.emitted = IF x.err = Ok THEN <<TransferEvent(s, t, a)>> ELSE <<>>
          /\ LET x == AdminExtension_adminMint(pool, s, t, a) IN
             x.emitted = IF x.err = Ok THEN <<TransferEvent(ZeroAddr, t, a)>> ELSE <<>>
          /\ LET x == AdminExtension_adminBurn(pool, s, t, a) IN
             x.emitted = IF x.err = Ok THEN <<TransferEvent(t, ZeroAddr, a)>> ELSE <<>>
          /\ LET x == TokenPool_buyTokens(pool, s, a) IN
             x.emitted = IF x.err = Ok
                         THEN <<TransferEvent(ZeroAddr, s, a * pool.buyRate)>> ELSE <<>>
          /\ \A ok \in BOOLEAN :
                LET x == TokenPool_sellTokens(pool, s, a, ok) IN
                x.emitted = IF x.err = Ok THEN <<TransferEvent(s, ZeroAddr, a)>> ELSE <<>>

\* a SimpleCoin.mint has succeeded and has appended its two records
C12_Witness ==
    /\ Returned("SimpleCoin", {"mint"}) /\ ret.err = Ok /\ ret.amount > 0
    /\ Len(ret.emitted) = 2

\* C13 as claimed - a successful transfer leaves the total supply and the
\* balances of the accounts not involved as they were; a transfer to oneself of
\* no more than the balance succeeds and leaves the balance as it was, and one
\* of more than the balance fails for the insufficient balance.
C13_TransferFrame ==
    [][ /\ (ret'.contract = "Coin" /\ ret'.fn = "send") =>
             /\ ret'.err = Ok =>
                   \A x \in Addr \ {ret'.sender, ret'.to} :
                       coin_balances'[x] = coin_balances[x]
             /\ ret'.sender = ret'.to =>
                   IF ret'.amount <= coin_balances[ret'.sender]
                   THEN ret'.err = Ok /\ coin_balances' = coin_balances
                   ELSE ret'.err = InsufficientBalance(ret'.amount,
                                                       coin_balances[ret'.sender])
        /\ (ret'.contract = "SimpleCoin" /\ ret'.fn = "transfer") =>
             /\ ret'.err = Ok =>
                   /\ \A x \in Addr \ {ret'.sender, ret'.to} :
                          sc_balanceOf'[x] = sc_balanceOf[x]
                   /\ sc_balanceOf'[sc_owner'] = sc_balanceOf[sc_owner]
             /\ ret'.sender = ret'.to =>
                   IF ret'.amount <= sc_balanceOf[ret'.sender]
                   THEN ret'.err = Ok /\ sc_balanceOf' = sc_balanceOf
                   ELSE ret'.err = Error("Insufficient balance")
      ]_vars

Overflow == {Panic, Error("Overflow detected"), Error("Addition overflow")}

\* C15 - Overflow is checked.  An addition that exceeds the range of the type
\* makes the call fail with an overflow error and leaves the state as it was:
\* the pure additions return no wrapped sum, a mint or transfer that would take
\* the recipient's balance (or the total supply) over the top is rejected, and
\* every balance stays within the range of the type.
C15_OverflowChecked ==
    /\ \A x \in Addr :
          sp_balances[x] \in Uint /\ coin_balances[x] \in Uint /\ sc_balanceOf[x] \in Uint
    /\ \A x \in Pool_Target : pool.balances[x] \in Uint
    /\ pool.totalSupply \in Uint
    /\ \A a \in Uint, b \in Uint :
          IF a + b > MaxUint
          THEN unsafeAdd(a, b).err \in Overflow /\ safeAdd(a, b).err \in Overflow
          ELSE /\ unsafeAdd(a, b) = [err |-> Ok, value |-> a + b]
               /\ safeAdd(a, b) = [err |-> Ok, value |-> a + b]
    /\ \A s \in Addr, to \in Addr, v \in Uint :
          /\ (s = sc_owner /\ sc_balanceOf[to] + v > MaxUint) =>
                LET x == SimpleCoin_mint_result(sc_owner, sc_balanceOf, s, to, v) IN
                x.err \in Overflow /\ x.balanceOf = sc_balanceOf
          /\ (sc_balanceOf[s] >= v /\ sc_balanceOf[to] + v > MaxUint) =>
                LET x == SimpleCoin_transfer_result(sc_balanceOf, s, to, v) IN
                x.err \in Overflow /\ x.balanceOf = sc_balanceOf
          /\ (s = coin_minter /\ coin_balances[to] + v > MaxUint) =>
                LET x == Coin_mint_result(coin_minter, coin_balances, s, to, v) IN
                x.err \in Overflow /\ x.balances = coin_balances
    /\ \A s \in Pool_Addr, to \in Pool_Addr, v \in Uint :
          ( /\ s \in pool.admins
            /\ \/ pool.balances[to] + v > MaxUint
               \/ pool.totalSupply + v > MaxUint ) =>
             LET x == AdminExtension_adminMint(pool, s, to, v) IN
             x.err \in Overflow /\ x.st = pool
    /\ (Returned("SP", {"unsafeAdd", "safeAdd"}) /\ ret.err = Ok) => ret.amount \in Uint

\* a mint that would take a balance over the top of the type has been rejected
C15_Witness ==
    /\ Returned("SimpleCoin", {"mint"}) /\ ret.err \in Overflow
    /\ sc_balanceOf[ret.to] > 0 /\ sc_balanceOf[ret.to] + ret.amount > MaxUint

\* C16 - deposit has no authorization check: made by any account, it succeeds
\* and adds exactly the value sent to balances[caller]; the other balances, the
\* owner and the lock stay as they were and the value is with the contract.
\* Its only failure is the checked addition, for a balance that the value would
\* take over the top of the type, and then nothing changes.  Receiving a plain
\* value transfer does the same as deposit with that sender and value.
C16_DepositEffect ==
    [][ (ret'.contract = "SP" /\ ret'.fn \in {"deposit", "receive"}) =>
          LET s == ret'.sender
              v == ret'.amount
          IN  IF sp_balances[s] + v <= MaxUint
              THEN /\ ret'.err = Ok
                   /\ sp_balances' = [sp_balances EXCEPT ![s] = @ + v]
                   /\ sp_eth' = sp_eth + v
                   /\ wallet' = [wallet EXCEPT ![s] = @ - v]
                   /\ ret'.emitted = <<DepositEvent(s, v)>>
                   /\ UNCHANGED <<sp_owner, sp_locked, sp_stack>>
              ELSE /\ ret'.err = Panic
                   /\ UNCHANGED <<sp_owner, sp_balances, sp_locked, sp_eth, sp_stack, wallet>>
      ]_vars

\* an account that is not the owner has sent value to the contract and is
\* credited with it
C16_Witness ==
    /\ Returned("SP", {"receive"}) /\ ret.err = Ok /\ ret.amount > 0
    /\ ret.sender # sp_owner
    /\ sp_balances[ret.sender] = ret.amount

\* C17 as claimed - totalSupply() of SimpleCoin is the sum of all balanceOf
\* entries, whatever mints and transfers have been made.
C17_TotalSupplyIsSum ==
    contract = "SimpleCoin" => SimpleCoin_totalSupply = Sum(sc_balanceOf)

\* C18 - No external call reaches _transfer, _mint or _burn except through the
\* functions of TokenPool and AdminExtension: the total supply changes only by
\* a successful buyTokens that brought Ether (up), a successful sellTokens (down,
\* out of the seller's balance), or a successful adminMint or adminBurn of an
\* admin; any other change of balances is a successful transfer out of the
\* caller's balance.
C18_InternalsNotReachable ==
    [][ contract = "Pool" =>
          LET s == ret'.sender
              up == pool'.totalSupply - pool.totalSupply
          IN
          /\ pool'.totalSupply # pool.totalSupply =>
                /\ ret'.err = Ok
                /\ \/ /\ ret'.fn = "buyTokens"
                      /\ up > 0 /\ pool'.eth > pool.eth
                      /\ pool'.balances = [pool.balances EXCEPT ![s] = @ + up]
                   \/ /\ ret'.fn = "sellTokens"
                      /\ up < 0
                      /\ pool'.balances = [pool.balances EXCEPT ![s] = @ + up]
                   \/ /\ ret'.fn = "adminMint" /\ s \in pool.admins /\ up > 0
                      /\ \E to \in Pool_Addr :
                            pool'.balances = [pool.balances EXCEPT ![to] = @ + up]
                   \/ /\ ret'.fn = "adminBurn" /\ s \in pool.admins /\ up < 0
                      /\ \E from \in Pool_Addr :
                            pool'.balances = [pool.balances EXCEPT ![from] = @ + up]
          /\ (pool'.totalSupply = pool.totalSupply /\ pool'.balances # pool.balances) =>
                /\ ret'.fn = "transfer" /\ ret'.err = Ok
                /\ pool'.balances[s] < pool.balances[s]
                /\ \A x \in Pool_Target \ {s} : pool'.balances[x] >= pool.balances[x]
                /\ Sum(pool'.balances) = Sum(pool.balances)
      ]_vars

\* a transfer has moved tokens of the caller to the other account
C18_Witness ==
    /\ Returned("Pool", {"transfer"}) /\ ret.err = Ok /\ ret.sender = "A"
    /\ TokenPool_balanceOf("O") > 0 /\ TokenPool_balanceOf("A") > 0

\* C19 - addAdmin, adminMint, adminBurn and emergencyWithdraw fail with "Admin
\* access required" and change nothing when the caller is not an admin.  The
\* deployer is an admin from construction, and the admins change only by a
\* successful addAdmin made by an admin, which adds accounts and removes none.
C19_AdminOnly ==
    /\ contract = "Pool" => pool.admins = {Deployer}
    /\ [][ contract = "Pool" =>
              /\ ( /\ ret'.fn \in {"addAdmin", "adminMint", "adminBurn", "emergencyWithdraw"}
                    /\ ret'.sender \notin pool.admins ) =>
                    /\ ret'.err = Error("Admin access required")
                    /\ pool' = pool
              /\ pool'.admins # pool.admins =>
                    /\ ret'.fn = "addAdmin" /\ ret'.err = Ok
                    /\ ret'.sender \in pool.admins
                    /\ pool.admins \subseteq pool'.admins
                    /\ Cardinality(pool'.admins) = Cardinality(pool.admins) + 1
          ]_vars

\* an account that is not an admin has tried an admin-only function while the
\* contract held tokens and Ether
C19_Witness ==
    /\ Returned("Pool", {"emergencyWithdraw"})
    /\ ret.sender \notin pool.admins
    /\ ret.err = Error("Admin access required")
    /\ pool.eth > 0 /\ pool.totalSupply > 0

\* C20 - Dispatch of ConstructorAndFallback.  lastFunctionCalled is
\* "constructor" after deployment.  A call with no call data runs receive(),
\* which succeeds and sets it to "receive"; a call whose data names no function
\* runs fallback(), which succeeds and sets it to "fallback"; a call of
\* doSomething() sets it to "doSomething"; any other call, and a call that
\* fails, leaves it as it was.  So it names the most recent of these calls.
C20_Dispatch ==
    /\ contract = "CF" => cf.lastFunctionCalled = "constructor"
    /\ [][ ret'.contract = "CF" =>
              /\ ret'.data = "" => ret'.fn = "receive" /\ ret'.err = Ok
              /\ ret'.data \notin (CF_functions \cup {""}) =>
                    /\ ret'.fn = "fallback"
                    /\ ret'.err = IF cf.fallbackCallCount < MaxUint THEN Ok ELSE Panic
              /\ ret'.data = "doSomething" =>
                    /\ ret'.fn = "doSomething"
                    /\ ret'.err = Ok <=> ret'.amount = 0
              /\ cf'.lastFunctionCalled =
                    IF ret'.err = Ok /\ ret'.fn \in {"receive", "fallback", "doSomething"}
                    THEN ret'.fn ELSE cf.lastFunctionCalled
          ]_vars

\* Ether has arrived with no call data after a fallback call had been made
C20_Witness ==
    /\ Returned("CF", {"receive"}) /\ ret.data = "" /\ ret.amount > 0
    /\ cf.lastFunctionCalled = "receive"
    /\ cf.fallbackCallCount > 0

C22_SetGetRoundTrip ==
    /\ contract = "SimpleStorage" =>
          /\ SimpleStorage_get(ss) = ss.lastSet
          /\ ss.version = "intro" => SimpleStorage_get(ss) = 0
    /\ [][ contract = "SimpleStorage" =>
              /\ SimpleStorage_get(ss') = ss'.lastSet + ss'.adjust
              /\ ret'.fn = "set" => SimpleStorage_get(ss') = ret'.amount
              /\ ret'.fn = "get" =>
                    /\ ret'.err = Ok
                    /\ ret'.amount = ss.lastSet + ss.adjust
                    /\ ss' = ss
          ]_vars

\* a get after a set and a decrement
C22_Witness ==
    /\ Returned("SimpleStorage", {"get"})
    /\ ss.lastSet > 1 /\ ss.adjust < 0
    /\ ret.amount = ss.lastSet + ss.adjust

\* C23 - decrement prevents underflow.  With storedData at 0 it fails with
\* "Cannot decrement below zero", leaves storedData at 0 and emits nothing;
\* otherwise it lowers storedData by exactly 1 and emits DataStored with the
\* new value.  storedData never leaves the range of the type.
C23_DecrementChecked ==
    /\ ss.storedData \in Uint
    /\ [][ /\ ss'.storedData \in Uint
           /\ (ret'.contract = "SimpleStorage" /\ ret'.fn = "decrement") =>
                IF ss.storedData = 0
                THEN /\ ret'.err = Error("Cannot decrement below zero")
                     /\ ss'.storedData = 0
                     /\ ret'.emitted = <<>>
                ELSE /\ ret'.err = Ok
                     /\ ss'.storedData = ss.storedData - 1
                     /\ ret'.emitted = <<DataStored(ret'.sender, ss'.storedData)>>
         ]_vars

\* a value was set and counted down to 0, and one more decrement was rejected
C23_Witness ==
    /\ Returned("SimpleStorage", {"decrement"})
    /\ ret.err = Error("Cannot decrement below zero")
    /\ ss.lastSet > 0 /\ ss.storedData = 0

\* where the console shows msg: the set of its positions in log
JS_pos(msg) == {i \in DOMAIN js.log : js.log[i] = msg}
JS_printed(msg) == JS_pos(msg) # {}
\* b is printed only after a
JS_before(a, b) == \A j \in JS_pos(b) : \E i \in JS_pos(a) : i < j
\* the run is over: the script has ended and nothing is pending
JS_finished ==
    contract = "JS" /\ js.pc > Len(JS_Script) /\ js.micro = <<>> /\ js.timers = {}
\* what the top-level statements of the script print
JS_syncLogs ==
    {"1. Start", "3. End", "5. Synchronous code runs first.", "Fetching data...",
     "Fetching data with async/await...", "Chaining Promises Start...",
     "Async/Await Sequential Start...", "End of async programming examples."}
JS_Timer0 == "4. This runs last, despite 0ms delay."
JS_Timer2000 == "2. This message is delayed by 2 seconds."

\* C24 - Event-loop order of section 1.  "1. Start", "3. End" and "5.
\* Synchronous code runs first." are printed in that order; whatever a callback
\* prints comes after everything the script prints synchronously; the message
\* of the 0 ms timer comes before the message of the 2000 ms timer; and a run
\* that is over has printed all five.
C24_EventLoopOrder ==
    /\ JS_before("1. Start", "3. End")
    /\ JS_before("3. End", "5. Synchronous code runs first.")
    /\ \A j \in DOMAIN js.log :
          js.log[j] \notin JS_syncLogs =>
             \A m \in JS_syncLogs : \E i \in JS_pos(m) : i < j
    /\ JS_before(JS_Timer0, JS_Timer2000)
    /\ JS_finished =>
          /\ JS_printed("1. Start") /\ JS_printed("5. Synchronous code runs first.")
          /\ JS_printed(JS_Timer0) /\ JS_printed(JS_Timer2000)

\* both timers of section 1 have fired
C24_Witness ==
    /\ contract = "JS"
    /\ JS_printed(JS_Timer0) /\ JS_printed(JS_Timer2000)

JS_Result == "Promise Result: Promise resolved successfully!"
JS_Error == "Promise Error: Promise was rejected."
JS_Completed == "Promise Completed."

\* C25 - myPromise settles once, one way.  The then handler and the catch
\* handler never both run, neither runs twice, and each runs only for its
\* outcome; "Promise Completed." is printed once, after the handler that ran;
\* and a run that is over has printed the message of one handler and
\* "Promise Completed.".
C25_SettlesOnce ==
    /\ ~(JS_printed(JS_Result) /\ JS_printed(JS_Error))
    /\ \A m \in {JS_Result, JS_Error, JS_Completed} : Cardinality(JS_pos(m)) <= 1
    /\ JS_printed(JS_Result) => js.promise = "fulfilled"
    /\ JS_printed(JS_Error) => js.promise = "rejected"
    /\ JS_printed(JS_Completed) =>
          \E m \in {JS_Result, JS_Error} : JS_printed(m) /\ JS_before(m, JS_Completed)
    /\ JS_finished =>
          /\ js.promise # "pending"
          /\ JS_printed(JS_Completed)

\* a run in which the promise was rejected is over
C25_Witness ==
    /\ JS_finished
    /\ JS_printed(JS_Error) /\ JS_printed(JS_Completed)

JS_chain ==
    << "Message 1 (1s delay)", "Message 2 (1.5s delay)", "Message 3 (0.5s delay)",
       "Chaining Completed." >>
JS_async ==
    << "Async Message 1 (1s delay)", "Async Message 2 (1.5s delay)",
       "Async Message 3 (0.5s delay)", "Async/Await Sequential Completed." >>

\* C26 - Sequential chaining.  In each of the two chains the messages are
\* printed in the order 1, 2, 3, completed, each once; the timer of a message
\* is set only after the message before it was printed; and a run that is over
\* has printed all of them.
C26_SequentialChaining ==
    \A c \in {JS_chain, JS_async} :
       /\ \A k \in 1..3 : JS_before(c[k], c[k + 1])
       /\ \A k \in 1..4 : Cardinality(JS_pos(c[k])) <= 1
       /\ \A t \in js.timers : \A k \in 2..3 :
             (t.cb.kind = "delayed" /\ t.cb.msg = c[k]) => JS_printed(c[k - 1])
       /\ JS_finished => \A k \in 1..4 : JS_printed(c[k])

\* a run is over in which the two chains have advanced in turns
C26_Witness ==
    /\ JS_finished
    /\ JS_before(JS_chain[1], JS_async[1])
    /\ JS_before(JS_async[1], JS_chain[2])
    /\ JS_before(JS_async[2], JS_chain[3])

\* the calls that move tokens
T_movers == {"transfer", "transferFrom", "mint", "burn"}

\* C27 - Pause.  While MyToken is paused no transfer, transferFrom, mint or burn
\* succeeds, whoever calls it with whatever arguments, and no step changes a
\* balance or the supply; while it is not paused a transfer of no more than the
\* sender's balance to an account succeeds and moves the tokens.  A pause that
\* succeeds was called by the owner and sets the flag, which stays set until an
\* unpause called by the owner succeeds; pause and unpause called by another
\* account fail and change nothing.
C27_Pause ==
    /\ [](contract = "ERC20" =>
            /\ token.paused =>
                 /\ \A s \in T_Addr, to \in T_Addr \cup {ZeroAddr}, x \in Uint :
                       /\ ERC20_transfer(token, s, to, x).err # Ok
                       /\ MyToken_mint(token, s, to, x).err # Ok
                       /\ \A from \in T_Addr :
                             ERC20_transferFrom(token, s, from, to, x).err # Ok
                 /\ \A s \in T_Addr, x \in Uint :
                       ERC20Burnable_burn(token, s, x).err # Ok
            /\ ~token.paused =>
                 \A s \in T_Addr, to \in T_Addr : \A x \in 0..token.balances[s] :
                    LET r == ERC20_transfer(token, s, to, x) IN
                    /\ r.err = Ok
                    /\ to # s => /\ r.st.balances[s] = token.balances[s] - x
                                 /\ r.st.balances[to] = token.balances[to] + x)
    /\ [][contract = "ERC20" =>
            /\ token.paused =>
                 /\ token'.balances = token.balances
                 /\ token'.totalSupply = token.totalSupply
                 /\ ret'.fn \in T_movers => ret'.err # Ok
            /\ token'.paused # token.paused =>
                 /\ ret'.fn = (IF token.paused THEN "unpause" ELSE "pause")
                 /\ ret'.sender = token.owner /\ ret'.err = Ok
            /\ (ret'.fn \in {"pause", "unpause"} /\ ret'.err = Ok) =>
                 token'.paused = (ret'.fn = "pause")
            /\ (ret'.fn \in {"pause", "unpause"} /\ ret'.sender # token.owner) =>
                 /\ ret'.err = OwnableUnauthorizedAccount
                 /\ token' = token]_vars

\* a transfer has succeeded after the token was paused and unpaused
C27_Witness ==
    /\ contract = "ERC20"
    /\ ret.fn = "transfer" /\ ret.err = Ok
    /\ token.everPaused /\ ~token.paused
    /\ token.balances["A"] > 0

\* C28 - Token ids.  The ids of the tokens minted so far, in the order of the
\* mints, are 0, 1, 2, ... up to the counter, so no id is handed out twice,
\* whatever was burned; the counter moves only in a safeMint that succeeds,
\* which the owner called and which got the id the counter stood at; a safeMint
\* that fails changes nothing; and a safeMint called by another account fails.
C28_TokenIds ==
    /\ [](contract = "NFT" =>
            /\ nft.mints = [i \in 1..nft.nextTokenId |-> i - 1]
            /\ \A i \in N_Id : nft.owners[i] # ZeroAddr => i < nft.nextTokenId)
    /\ [][contract = "NFT" =>
            /\ nft'.nextTokenId # nft.nextTokenId =>
                 /\ ret'.fn = "safeMint" /\ ret'.err = Ok
                 /\ ret'.sender = nft.owner
                 /\ ret'.amount = nft.nextTokenId
                 /\ nft'.nextTokenId > nft.nextTokenId
            /\ (ret'.fn = "safeMint" /\ ret'.err = Ok) =>
                 nft'.nextTokenId > nft.nextTokenId
            /\ (ret'.fn = "safeMint" /\ ret'.err # Ok) => nft' = nft
            /\ (ret'.fn = "safeMint" /\ ret'.sender # nft.owner) =>
                 ret'.err = OwnableUnauthorizedAccount]_vars

\* the third token has been minted after the first two were burned
C28_Witness ==
    /\ contract = "NFT"
    /\ ret.fn = "safeMint" /\ ret.err = Ok /\ ret.amount = 2
    /\ nft.owners[0] = ZeroAddr /\ nft.owners[1] = ZeroAddr
    /\ nft.owners[2] # ZeroAddr

\* the number a string of decimal digits stands for
RECURSIVE ITS_parse(_)
ITS_parse(str) ==
    IF str = <<>> THEN 0
    ELSE 10 * ITS_parse(SubSeq(str, 1, Len(str) - 1)) + (str[Len(str)] - 48)

\* C29 - integerToString.  The call never fails; what it returns is a string of
\* at least one decimal digit that stands for the argument, "0" for 0 and
\* without a leading zero otherwise; and the loops end: each turn of the first
\* makes temp smaller, each turn of the second makes _value smaller.
C29_IntegerToString ==
    /\ [](contract = "integerToString" =>
            /\ its.pc # "panic"
            /\ its.pc = "returned" =>
                 /\ Len(its.result) >= 1
                 /\ \A i \in DOMAIN its.result : its.result[i] \in 48..57
                 /\ ITS_parse(its.result) = its.value
                 /\ its.value = 0 => its.result = <<48>>
                 /\ its.value # 0 => its.result[1] # 48)
    /\ [][contract = "integerToString" =>
            /\ (its.pc = "count" /\ its'.pc = "count") => its'.temp < its.temp
            /\ (its.pc = "fill" /\ its'.pc = "fill") => its'._value < its._value
            /\ its'.value = its.value]_vars

\* 105 has been converted: three digits, a zero among them
C29_Witness ==
    /\ contract = "integerToString"
    /\ its.pc = "returned" /\ its.value = 105
    /\ its.result = <<49, 48, 53>>

\* C30 - Scope of the lock.  While the lock is held, a deposit (or a plain
\* payment, which deposits) made by the recipient of the withdrawal is not
\* rejected by the lock: it credits the sender unless the sum overflows; a
\* balance query returns the balance; an unsafeWithdraw is not rejected by the
\* lock either.  A call is rejected with "Reentrant call detected" only when
\* it is a safeWithdraw made while the lock is held.
C30_LockScope ==
    [][(contract = "SP" /\ sp_locked) =>
          /\ ret'.fn \in {"deposit", "receive"} =>
               /\ ret'.err = (IF AddFits(sp_balances[ret'.sender], ret'.amount)
                              THEN Ok ELSE Panic)
               /\ ret'.err = Ok =>
                    sp_balances'[ret'.sender] = sp_balances[ret'.sender] + ret'.amount
          /\ ret'.fn = "balances" =>
               /\ ret'.err = Ok
               /\ ret'.amount = sp_balances[ret'.sender]
          /\ ret'.fn = "getContractBalance" =>
               /\ ret'.err = Ok
               /\ ret'.amount = sp_eth
          /\ (ret'.err = ReentrantCall /\ ret' # ret) => ret'.fn = "safeWithdraw"
          /\ ret'.fn = "unsafeWithdraw" => ret'.err # ReentrantCall]_vars

\* the recipient of a safeWithdraw in flight has deposited
C30_Witness ==
    /\ Returned("SP", {"deposit"}) /\ ret.err = Ok
    /\ ret.depth = 2 /\ sp_locked
    /\ sp_stack # <<>> /\ SP_top.fn = "safeWithdraw"

\* C31 - Minting nothing.  A mint of amount 0 called by the owner (the minter
\* of Coin, the owner of SimpleCoin) succeeds, and afterwards every balance is
\* what it was before; so is totalSupply(), which SimpleCoin has and Coin has
\* not.
C31_MintZero ==
    [][ /\ (ret'.contract = "Coin" /\ ret'.fn = "mint" /\ ret'.amount = 0
              /\ ret'.sender = coin_minter) =>
             /\ ret'.err = Ok
             /\ coin_balances' = coin_balances
        /\ (ret'.contract = "SimpleCoin" /\ ret'.fn = "mint" /\ ret'.amount = 0
              /\ ret'.sender = sc_owner) =>
             /\ ret'.err = Ok
             /\ sc_balanceOf' = sc_balanceOf
             /\ SimpleCoin_totalSupply' = SimpleCoin_totalSupply
      ]_vars

\* the owner of SimpleCoin has minted 0 tokens to an account that holds some
C31_Witness ==
    /\ Returned("SimpleCoin", {"mint"}) /\ ret.err = Ok
    /\ ret.amount = 0 /\ ret.sender = sc_owner
    /\ sc_balanceOf[ret.to] > 0 /\ ret.to # sc_owner
    /\ Len(ret.emitted) = 2

\* C32 - fallbackCallCount.  The counter is 0 after construction.  A call
\* that runs fallback() and succeeds raises it by exactly 1; every other call
\* (receive, doSomething, withdraw, getBalance, the getters) and every call
\* that fails leaves it as it was.  So it never decreases, and it is at all
\* times the number of fallback() calls that have succeeded.
C32_FallbackCount ==
    /\ contract = "CF" => cf.fallbackCallCount = 0
    /\ [][ /\ cf'.fallbackCallCount >= cf.fallbackCallCount
           /\ ret'.contract = "CF" =>
                cf'.fallbackCallCount =
                   IF ret'.fn = "fallback" /\ ret'.err = Ok
                   THEN cf.fallbackCallCount + 1
                   ELSE cf.fallbackCallCount
         ]_vars

\* fallback() has run twice and the owner has then withdrawn what it brought
C32_Witness ==
    /\ Returned("CF", {"withdraw"}) /\ ret.err = Ok /\ ret.sent = "ok"
    /\ cf.fallbackCallCount = 2
    /\ wallet[cf.owner] > InitFunds

\* C33 - buyTokens.  A buyTokens call that succeeds has brought v > 0 wei,
\* which the contract keeps; it adds v * buyRate > 0 tokens to the caller's
\* balance and to the total supply, and changes nothing else.  A call that
\* fails leaves the ledger and the contract's Ether as they were.  A call
\* that brings nothing, and a call made while buyRate is 0, fails.
C33_BuyTokens ==
    /\ [](contract = "Pool" =>
            \A s \in Pool_Addr, v \in Uint :
               LET r == TokenPool_buyTokens(pool, s, v) IN
               Pool_payable(v) =>
               /\ (v = 0 \/ v * pool.buyRate = 0) => (r.err # Ok /\ r.st = pool)
               /\ r.err = Ok =>
                    /\ r.st.balances[s] = pool.balances[s] + v * pool.buyRate
                    /\ r.st.totalSupply = pool.totalSupply + v * pool.buyRate
                    /\ r.st.eth = pool.eth + v)
    /\ [][(ret'.contract = "Pool" /\ ret'.fn = "buyTokens") =>
            LET v == pool'.eth - pool.eth
                s == ret'.sender
            IN  /\ pool.buyRate = 0 => ret'.err # Ok
                /\ IF ret'.err = Ok
                   THEN /\ v > 0 /\ v * pool.buyRate > 0
                        /\ pool' = [pool EXCEPT !.eth = @ + v,
                                                !.balances[s] = @ + v * pool.buyRate,
                                                !.totalSupply = @ + v * pool.buyRate]
                   ELSE pool' = pool]_vars

\* account A has bought tokens for 1 wei at the rate of 2
C33_Witness ==
    /\ Returned("Pool", {"buyTokens"}) /\ ret.err = Ok /\ ret.sender = "A"
    /\ pool.buyRate = 2 /\ pool.eth = 1
    /\ TokenPool_balanceOf("A") = 2 /\ TokenPool_totalSupply >= 2

====
